---- MODULE Spec2Model ----
(***************************************************************************)
(* Model of OrdersHelper (src/unnamed/part_000): the order placement,      *)
(* payment recording, assignment, rating and projection workflows over the *)
(* relational store, and the pure filename sanitizer.                      *)
(*                                                                         *)
(* Store semantics follow the calls as written.  A query is part of the    *)
(* transaction t only when { transaction: t } is in the options argument   *)
(* the ORM reads: Model.create(values, options) takes it as its second     *)
(* argument, Model.update(values, options) and Model.findOne(options) are  *)
(* called in the source with it as an extra trailing argument, which the   *)
(* ORM ignores (the FIXME at lines 1760-1766 records that automatic        *)
(* transaction passing is not set up).  So an update is committed at once  *)
(* and a read sees committed rows only; a create is pending until the      *)
(* transaction callback returns and is dropped when it throws.             *)
(***************************************************************************)
EXTENDS Integers, Sequences, FiniteSets, TLC

VARIABLES db, last, calls

vars == <<db, last, calls>>

----------------------------------------------------------------------------
(* Generic helpers on sequences (tables are sequences of rows in insertion *)
(* order; a string is a sequence of one-character strings).                *)

SelectRows(tbl, P(_)) == SelectSeq(tbl, P)

Count(tbl, P(_)) == Len(SelectSeq(tbl, P))

Exists(tbl, P(_)) == \E i \in 1..Len(tbl) : P(tbl[i])

FirstRow(tbl, P(_)) == SelectSeq(tbl, P)[1]

MapRows(tbl, F(_)) == [i \in 1..Len(tbl) |-> F(tbl[i])]

Min(a, b) == IF a < b THEN a ELSE b

Max(a, b) == IF a > b THEN a ELSE b

----------------------------------------------------------------------------
(* Filename sanitizer                                                      *)

MAX_ORIGINAL_NAME_LENGTH == 50

\* String.prototype.split('.'): the segments between the dots.
RECURSIVE SplitDot(_)
SplitDot(s) ==
  IF \A i \in 1..Len(s) : s[i] # "."
  THEN <<s>>
  ELSE LET d == CHOOSE i \in 1..Len(s) :
                  s[i] = "." /\ \A j \in 1..(i - 1) : s[j] # "."
       IN <<SubSeq(s, 1, d - 1)>> \o SplitDot(SubSeq(s, d + 1, Len(s)))

\* Array.prototype.join('.').
RECURSIVE JoinDot(_)
JoinDot(parts) ==
  IF Len(parts) = 0 THEN <<>>
  ELSE IF Len(parts) = 1 THEN parts[1]
  ELSE parts[1] \o <<".">> \o JoinDot(Tail(parts))

\* String.prototype.slice(0, end): a negative end counts from the end of
\* the string, an end past the string stops at its length.
SliceFromStart(s, end) ==
  LET e == IF end < 0 THEN Max(Len(s) + end, 0) ELSE Min(end, Len(s))
  IN SubSeq(s, 1, e)

Returned(v) == [threw |-> FALSE, val |-> v]

Threw == [threw |-> TRUE, val |-> <<>>]

originalNameFormatter_offByOne(originalName) ==
  IF Len(originalName) > MAX_ORIGINAL_NAME_LENGTH
  THEN LET SPLIT_FILE_NAME == SplitDot(originalName)
           n == Len(SPLIT_FILE_NAME)
       IN IF n > 2
          THEN LET fileExtension == SPLIT_FILE_NAME[n]
                   fileName == JoinDot(SubSeq(SPLIT_FILE_NAME, 1, n - 1))
                   remainingNameLength ==
                     MAX_ORIGINAL_NAME_LENGTH - Len(fileExtension)
               IN Returned(SliceFromStart(fileName, remainingNameLength)
                             \o <<".">> \o fileExtension)
          ELSE IF n = 2
          THEN LET fileName == SPLIT_FILE_NAME[1]
                   fileExtension == SPLIT_FILE_NAME[2]
                   remainingNameLength ==
                     MAX_ORIGINAL_NAME_LENGTH - Len(fileExtension)
               IN Returned(SliceFromStart(fileName, remainingNameLength)
                             \o <<".">> \o fileExtension)
          ELSE Threw
  ELSE Returned(originalName)

\* originalNameFormatter: a name of at most 50 characters is returned as it
\* is.  Otherwise the name is split on '.', the last segment is the
\* extension, and the file name is cut by slice(0, 50 - extension.length - 1).
\* With no '.', split('.')[1] is undefined and reading its length throws.
originalNameFormatter(originalName) ==
  IF Len(originalName) > MAX_ORIGINAL_NAME_LENGTH
  THEN LET SPLIT_FILE_NAME == SplitDot(originalName)
           n == Len(SPLIT_FILE_NAME)
       IN IF n > 2
          THEN LET fileExtension == SPLIT_FILE_NAME[n]
                   fileName == JoinDot(SubSeq(SPLIT_FILE_NAME, 1, n - 1))
                   remainingNameLength ==
                     MAX_ORIGINAL_NAME_LENGTH - Len(fileExtension)
               IN Returned(SliceFromStart(fileName, remainingNameLength - 1)
                             \o <<".">> \o fileExtension)
          ELSE IF n = 2
          THEN LET fileName == SPLIT_FILE_NAME[1]
                   fileExtension == SPLIT_FILE_NAME[2]
                   remainingNameLength ==
                     MAX_ORIGINAL_NAME_LENGTH - Len(fileExtension)
               IN Returned(SliceFromStart(fileName, remainingNameLength - 1)
                             \o <<".">> \o fileExtension)
          ELSE Threw
  ELSE Returned(originalName)

\* Input names: up to MaxSegs segments joined by '.', each segment of a
\* length in SegLens; the characters of a segment cycle through Letters so
\* that a cut in the wrong place is visible.
MaxSegs == 3

SegLens == {0, 3, 45, 46, 48, 49, 50, 60}

Letters == <<"a", "b", "c">>

Segment(k, n) == [i \in 1..n |-> Letters[((i + k) % 3) + 1]]

SegLenSeqs == UNION {[1..k -> SegLens] : k \in 1..MaxSegs}

\* "a".repeat(60) + ".pdf"
ExampleName == [i \in 1..60 |-> "a"] \o <<".", "p", "d", "f">>

Names ==
  {JoinDot([k \in 1..Len(ls) |-> Segment(k, ls[k])]) : ls \in SegLenSeqs}
  \cup {ExampleName}

----------------------------------------------------------------------------
(* The relational store                                                    *)

NULL == 0

\* User rows: a unique lower-case email and an id.
Users == { [id |-> 1, email |-> "a@x"], [id |-> 2, email |-> "b@x"] }

\* Client rows (Client.userId -> Client.id).
Clients == { [id |-> 21, userId |-> 1], [id |-> 22, userId |-> 2] }

\* Currency rows.
Currencies == { [id |-> 31, currencyCode |-> "USD"] }

\* String.prototype.toLowerCase on the emails a request can carry.
toLowerCase(email) ==
  CASE email = "A@X" -> "a@x"
    [] email = "B@X" -> "b@x"
    [] OTHER -> email

\* User.findOne({ where: { email } }) then Client.findOne({ where: { userId } }):
\* the id, or NULL when no row matches.
UserIdOf(email) ==
  IF \E u \in Users : u.email = email
  THEN (CHOOSE u \in Users : u.email = email).id
  ELSE NULL

ClientIdOf(userId) ==
  IF \E c \in Clients : c.userId = userId
  THEN (CHOOSE c \in Clients : c.userId = userId).id
  ELSE NULL

CurrencyIdOf(code) ==
  IF \E c \in Currencies : c.currencyCode = code
  THEN (CHOOSE c \in Currencies : c.currencyCode = code).id
  ELSE NULL

\* Writer rows (Writer.userId -> Writer.id).
Writers == { [id |-> 11, userId |-> 3], [id |-> 12, userId |-> 4] }

WriterIdOf(userId) ==
  IF \E w \in Writers : w.userId = userId
  THEN (CHOOSE w \in Writers : w.userId = userId).id
  ELSE NULL

\* The tables this module reads and writes.  Order 1 exists at the start:
\* an order whose payment summary has not been recorded (no
\* OrderPaymentDetail row), with one bid by writer 11.
SeedOrder ==
  [id |-> 1, clientId |-> 21, status |-> "Available", type |-> "Public",
   pageCount |-> 1, isDeleted |-> FALSE]

EmptyDb ==
  [orderSeq |-> 0, orders |-> <<>>, steps |-> <<>>, files |-> <<>>,
   pays |-> <<>>, bids |-> <<>>, worders |-> <<>>, ratings |-> <<>>,
   avgs |-> <<>>, paid |-> {}, tiers |-> <<>>, revisions |-> <<>>,
   invites |-> <<>>]

SeedDb ==
  [EmptyDb EXCEPT !.orderSeq = 1, !.orders = <<SeedOrder>>,
                  !.bids = <<[orderId |-> 1, writerId |-> 11,
                              successful |-> FALSE]>>]

\* Rows created with { transaction: t } and not yet committed.
EmptyTx ==
  [orders |-> <<>>, steps |-> <<>>, files |-> <<>>, pays |-> <<>>,
   worders |-> <<>>, revisions |-> <<>>]

\* The transaction callback returned: the pending rows become visible.
Commit(d, tx) ==
  [d EXCEPT !.orders = @ \o tx.orders, !.steps = @ \o tx.steps,
            !.files = @ \o tx.files, !.pays = @ \o tx.pays,
            !.worders = @ \o tx.worders,
            !.revisions = @ \o tx.revisions]

Rollback_keepsRows(d, tx) ==
  [d EXCEPT !.orders = @ \o tx.orders, !.steps = @ \o tx.steps,
            !.files = @ \o tx.files, !.pays = @ \o tx.pays,
            !.worders = @ \o tx.worders,
            !.revisions = @ \o tx.revisions]

\* The transaction callback threw: the pending rows are dropped; what was
\* written outside the transaction stays.
Rollback(d, tx) == d

Rejected == [rejected |-> TRUE, val |-> [error |-> TRUE]]

Resolved(v) == [rejected |-> FALSE, val |-> v]

Outcome(d, r) == [db |-> d, res |-> r]

----------------------------------------------------------------------------
(* Payment Recording: updateOrderPayment (lines 730-852)                   *)

PayRow(orderId, req, currencyId) ==
  [orderId |-> orderId, currencyId |-> currencyId,
   totalPrice |-> req.totalPrice]

StepRow(clientId, orderId, lastStep) ==
  [clientId |-> clientId, orderId |-> orderId, lastStep |-> lastStep]

OrderById(d, id) ==
  IF Exists(d.orders, LAMBDA o : o.id = id)
  THEN FirstRow(d.orders, LAMBDA o : o.id = id)
  ELSE [id |-> NULL]

UpdatePays_marksOrderPending(d, orderId, req, currencyId) ==
  [d EXCEPT !.pays = MapRows(@, LAMBDA p :
     IF p.orderId = orderId
     THEN [p EXCEPT !.currencyId = currencyId, !.totalPrice = req.totalPrice]
     ELSE p),
            !.orders = MapRows(@, LAMBDA o :
     IF o.id = orderId THEN [o EXCEPT !.status = "Pending payment"] ELSE o)]

\* OrderPaymentDetail.update({...}, { where: { orderId } }): every row of
\* that order, written outside the transaction.
UpdatePays(d, orderId, req, currencyId) ==
  [d EXCEPT !.pays = MapRows(@, LAMBDA p :
     IF p.orderId = orderId
     THEN [p EXCEPT !.currencyId = currencyId, !.totalPrice = req.totalPrice]
     ELSE p)]

\* The row created when the order has no payment detail carries
\* orderId: requestOrderId (line 805), not the resolved orderId.
NewPayOrderId(orderId, requestOrderId) == requestOrderId

updateOrderPayment(d, req, phase, requestOrderId) ==
  LET USER == UserIdOf(toLowerCase(req.email))
      CLIENT_ID == ClientIdOf(USER)
      CURRENCY_ID == CurrencyIdOf(req.currencyCode)
  IN
  IF USER = NULL THEN Outcome(d, Rejected)
  ELSE IF req.orderId > 0 \/ requestOrderId # NULL
  THEN
    LET orderId == IF req.orderId # 0 THEN req.orderId ELSE requestOrderId
        orderPaymentId == Exists(d.pays, LAMBDA p : p.orderId = orderId)
    IN
    IF orderPaymentId
    THEN \* update in place; the step-3 row only in phase 'check-order'
      IF CURRENCY_ID = NULL THEN Outcome(d, Rejected)
      ELSE
        LET d1 == UpdatePays(d, orderId, req, CURRENCY_ID)
            tx == IF phase = "check-order"
                  THEN [EmptyTx EXCEPT
                          !.steps = <<StepRow(CLIENT_ID, orderId, 3)>>]
                  ELSE EmptyTx
        IN IF phase = "check-order"
              /\ (CLIENT_ID = NULL \/ req.fail = "step")
           THEN Outcome(Rollback(d1, EmptyTx), Rejected)
           ELSE Outcome(Commit(d1, tx),
                        Resolved([response |-> "success",
                                  newOrder |-> FALSE]))
    ELSE \* create the payment detail, then the step-3 row
      IF CURRENCY_ID = NULL \/ req.fail = "pay" THEN Outcome(d, Rejected)
      ELSE
        LET tx1 == [EmptyTx EXCEPT
                      !.pays = <<PayRow(NewPayOrderId(orderId, requestOrderId),
                                        req, CURRENCY_ID)>>]
            clientIdInner == OrderById(d, orderId)
        IN IF phase = "check-order"
           THEN IF clientIdInner.id = NULL \/ req.fail = "step"
                THEN Outcome(Rollback(d, tx1), Rejected)
                ELSE Outcome(
                       Commit(d, [tx1 EXCEPT !.steps =
                         <<StepRow(clientIdInner.clientId, orderId, 3)>>]),
                       Resolved([response |-> "success",
                                 orderId |-> orderId]))
           ELSE Outcome(Commit(d, tx1),
                        Resolved([response |-> "success",
                                  orderId |-> orderId]))
  ELSE Outcome(d, Resolved([response |-> "no order ID"]))

\* saveOrderPaymentDetails (lines 855-858).
saveOrderPaymentDetails(d, req) ==
  updateOrderPayment(d, req, "check-order", NULL)

----------------------------------------------------------------------------
(* Order Placement & Update: saveOrderDetails (lines 309-542)              *)

OrderRow_pendingPayment(id, clientId, req) ==
  [id |-> id, clientId |-> clientId, status |-> "Pending payment",
   type |-> IF req.type = "public" THEN "Public" ELSE "Private",
   pageCount |-> req.pageCount, isDeleted |-> FALSE]

\* The columns written by Order.create / Order.update: the owner, the
\* 'Available' status, the visibility type and the request's fields.
OrderRow(id, clientId, req) ==
  [id |-> id, clientId |-> clientId, status |-> "Available",
   type |-> IF req.type = "public" THEN "Public" ELSE "Private",
   pageCount |-> req.pageCount, isDeleted |-> FALSE]

FileRow(orderId, file, name, type) ==
  [orderId |-> orderId, fileUrl |-> file.fileUrl, originalName |-> name,
   type |-> type, isDeleted |-> FALSE]

UpdateOrder_keepsStatus(d, clientId, req) ==
  [d EXCEPT !.orders = MapRows(@, LAMBDA o :
     IF o.id = req.orderId
     THEN [OrderRow(o.id, clientId, req) EXCEPT !.isDeleted = o.isDeleted,
                                                !.status = o.status]
     ELSE o)]

\* Order.update({...}, { where: { id: req.orderId } }): written outside the
\* transaction; every column of the request, the owner and the status too.
UpdateOrder(d, clientId, req) ==
  [d EXCEPT !.orders = MapRows(@, LAMBDA o :
     IF o.id = req.orderId
     THEN [OrderRow(o.id, clientId, req) EXCEPT !.isDeleted = o.isDeleted]
     ELSE o)]

\* ClientOrderPostingStep.update({ lastStep: 1 }, { where: { orderId } }).
UpdateSteps(d, orderId) ==
  [d EXCEPT !.steps = MapRows(@, LAMBDA st :
     IF st.orderId = orderId THEN [st EXCEPT !.lastStep = 1] ELSE st)]

FileExists_never(d, orderId, fileUrl) == FALSE

FileExists_notDeleted(d, orderId, fileUrl) ==
  Exists(d.files, LAMBDA f : f.orderId = orderId /\ f.fileUrl = fileUrl
                             /\ f.type = "Client Supporting"
                             /\ ~f.isDeleted)

\* OrderFile.findOne({ where: { orderId, fileUrl, type } }) (lines 410-417):
\* a committed row of any isDeleted value.
FileExists(d, orderId, fileUrl) ==
  Exists(d.files, LAMBDA f : f.orderId = orderId /\ f.fileUrl = fileUrl
                             /\ f.type = "Client Supporting")

\* The loop of lines 408-439: a file is created unless a row for it exists.
RECURSIVE AttachNew(_, _, _, _)
AttachNew(d, req, i, pending) ==
  IF i > Len(req.supportingFiles) THEN [ok |-> TRUE, files |-> pending]
  ELSE LET file == req.supportingFiles[i]
       IN IF FileExists(d, req.orderId, file.fileUrl)
          THEN AttachNew(d, req, i + 1, pending)
          ELSE LET FINAL_ORIGINAL_NAME ==
                     originalNameFormatter(file.originalName)
               IN IF FINAL_ORIGINAL_NAME.threw \/ req.fail = "file"
                  THEN [ok |-> FALSE, files |-> pending]
                  ELSE AttachNew(d, req, i + 1,
                         Append(pending,
                                FileRow(req.orderId, file,
                                        FINAL_ORIGINAL_NAME.val,
                                        "Client Supporting")))

\* The loop of lines 483-499: every file is created.
RECURSIVE AttachAll(_, _, _, _)
AttachAll(orderId, req, i, pending) ==
  IF i > Len(req.supportingFiles) THEN [ok |-> TRUE, files |-> pending]
  ELSE LET file == req.supportingFiles[i]
           FINAL_ORIGINAL_NAME == originalNameFormatter(file.originalName)
       IN IF FINAL_ORIGINAL_NAME.threw \/ req.fail = "file"
          THEN [ok |-> FALSE, files |-> pending]
          ELSE AttachAll(orderId, req, i + 1,
                 Append(pending,
                        FileRow(orderId, file, FINAL_ORIGINAL_NAME.val,
                                "Client Supporting")))

\* Update branch (lines 368-446).
saveOrderDetailsUpdate(d, req, CLIENT_ID) ==
  LET d1 == UpdateOrder(d, CLIENT_ID, req)
  IN IF req.fail = "step" THEN Outcome(d1, Rejected)
     ELSE
       LET d2 == UpdateSteps(d1, req.orderId)
           loop == AttachNew(d2, req, 1, <<>>)
           tx == [EmptyTx EXCEPT !.files = loop.files]
       IN IF ~loop.ok THEN Outcome(Rollback(d2, tx), Rejected)
          ELSE LET inner == updateOrderPayment(d2, req, "place-order", NULL)
               IN IF inner.res.rejected
                  THEN Outcome(Rollback(inner.db, tx), Rejected)
                  ELSE Outcome(Commit(inner.db, tx), inner.res)

\* Create branch (lines 447-536).
saveOrderDetailsCreate(d, req, CLIENT_ID) ==
  LET id == d.orderSeq + 1
      d0 == [d EXCEPT !.orderSeq = id]
      tx1 == [EmptyTx EXCEPT !.orders = <<OrderRow(id, CLIENT_ID, req)>>]
  IN IF req.fail = "step" THEN Outcome(Rollback(d0, tx1), Rejected)
     ELSE
       LET tx2 == [tx1 EXCEPT !.steps = <<StepRow(CLIENT_ID, id, 1)>>]
           loop == AttachAll(id, req, 1, <<>>)
           tx3 == [tx2 EXCEPT !.files = loop.files]
           CURRENCY_ID == CurrencyIdOf(req.currencyCode)
       IN IF ~loop.ok THEN Outcome(Rollback(d0, tx3), Rejected)
          ELSE IF CURRENCY_ID = NULL \/ req.fail = "pay"
          THEN Outcome(Rollback(d0, tx3), Rejected)
          ELSE Outcome(
                 Commit(d0, [tx3 EXCEPT !.pays =
                               <<PayRow(id, req, CURRENCY_ID)>>]),
                 Resolved([response |-> "success", orderId |-> id,
                           newOrder |-> TRUE]))

saveOrderDetails(d, req) ==
  LET USER == UserIdOf(toLowerCase(req.email))
      CLIENT_ID == ClientIdOf(USER)
  IN IF USER = NULL \/ CLIENT_ID = NULL THEN Outcome(d, Rejected)
     ELSE IF req.orderId > 0
     THEN saveOrderDetailsUpdate(d, req, CLIENT_ID)
     ELSE saveOrderDetailsCreate(d, req, CLIENT_ID)

----------------------------------------------------------------------------
(* Order Status & Assignment: updateOrderStatus (lines 861-967)            *)

\* ClientPayment.findOne({ where: { orderId, statusId: Success } }).
ORDER_ALREADY_PAID_FOR(d, orderId) == orderId \in d.paid

TargetStatus_paidOnly(d, req) ==
  IF ORDER_ALREADY_PAID_FOR(d, req.orderId) THEN "Ongoing"
  ELSE "Pending payment"

\* orderStatus (lines 878-886).
TargetStatus(d, req) ==
  IF req.type = "private" THEN "Ongoing"
  ELSE IF ORDER_ALREADY_PAID_FOR(d, req.orderId) THEN "Ongoing"
  ELSE "Pending payment"

SetOrderStatus(d, orderId, status) ==
  [d EXCEPT !.orders = MapRows(@, LAMBDA o :
     IF o.id = orderId THEN [o EXCEPT !.status = status] ELSE o)]

\* Order.update resolves to the array [affectedCount]; the test
\* `if (orderStatusUpdated)` (line 906) is on the array itself.
orderStatusUpdated(affectedCount) == TRUE

\* OrderBid.update({ successful: true }, { where: { orderId, writerId } }).
MarkBid(d, orderId, writerId) ==
  [d EXCEPT !.bids = MapRows(@, LAMBDA b :
     IF b.orderId = orderId /\ b.writerId = writerId
     THEN [b EXCEPT !.successful = TRUE] ELSE b)]

WRITER_ALREADY_CHOSEN_never(d, orderId, writerId) == FALSE

\* WriterOrder.findOne({ where: { orderId, writerId } }) (lines 915-921).
WRITER_ALREADY_CHOSEN(d, orderId, writerId) ==
  Exists(d.worders, LAMBDA w : w.orderId = orderId /\ w.writerId = writerId)

updateOrderStatus(d, req) ==
  LET d1 == SetOrderStatus(d, req.orderId, TargetStatus(d, req))
      affectedCount == Count(d.orders, LAMBDA o : o.id = req.orderId)
  IN IF orderStatusUpdated(affectedCount)
     THEN
       LET WRITER == WriterIdOf(req.writerId)
       IN IF WRITER = NULL THEN Outcome(d1, Rejected)
          ELSE
            LET d2 == IF req.type = "public"
                      THEN MarkBid(d1, req.orderId, WRITER) ELSE d1
            IN IF WRITER_ALREADY_CHOSEN(d1, req.orderId, WRITER)
               THEN Outcome(d2, Resolved([statusUpdated |-> TRUE,
                                          writerAlreadyChosen |-> TRUE]))
               ELSE IF req.fail = "worder"
               THEN Outcome(Rollback(d2, EmptyTx), Rejected)
               ELSE Outcome(
                      Commit(d2, [EmptyTx EXCEPT !.worders =
                        <<[orderId |-> req.orderId, writerId |-> WRITER]>>]),
                      Resolved([statusUpdated |-> TRUE,
                                writerAlreadyChosen |-> FALSE]))
     ELSE Outcome(d1, Resolved([statusUpdated |-> FALSE,
                                message |-> "Failed to update order status",
                                writerAlreadyChosen |-> FALSE]))

----------------------------------------------------------------------------
(* Rating Aggregation: rateWriter (lines 991-1068); no transaction         *)

RECURSIVE GCD(_, _)
GCD(a, b) == IF b = 0 THEN a ELSE GCD(b, a % b)

\* A rating average as a reduced fraction num / den.
Frac(n, m) == LET g == GCD(n, m) IN [num |-> n \div g, den |-> m \div g]

\* (AVERAGE_RATING.rating * (PREVIOUS_RATINGS.length - 1) + req.rating)
\*   / PREVIOUS_RATINGS.length   (lines 1039-1040)
NEW_AVERAGE_RATING_countBeforeInsert(old, n, rating) ==
  Frac(old.num * n + rating * old.den, old.den * (n + 1))

NEW_AVERAGE_RATING(old, n, rating) ==
  Frac(old.num * (n - 1) + rating * old.den, old.den * n)

ORDER_ALREADY_RATED_never(d, orderId) == FALSE

\* WriterRating.findOne({ where: { orderId } }) (lines 994-999).
ORDER_ALREADY_RATED(d, orderId) ==
  Exists(d.ratings, LAMBDA r : r.orderId = orderId)

rateWriter(d, req) ==
  IF ORDER_ALREADY_RATED(d, req.orderId)
  THEN Outcome(d, Resolved([rated |-> TRUE]))
  ELSE IF ~Exists(d.worders, LAMBDA w : w.orderId = req.orderId)
  THEN Outcome(d, Rejected)
  ELSE
    LET WRITER == FirstRow(d.worders, LAMBDA w : w.orderId = req.orderId)
        WRITER_RATED_ON_ORDER_ALREADY ==
          Exists(d.ratings, LAMBDA r : r.orderId = req.orderId
                                       /\ r.writerId = WRITER.writerId)
    IN IF WRITER_RATED_ON_ORDER_ALREADY
       THEN Outcome(d, Resolved([bare |-> TRUE]))
       ELSE IF req.fail = "rating" THEN Outcome(d, Rejected)
       ELSE
         LET d1 == [d EXCEPT !.ratings = Append(@,
                      [orderId |-> req.orderId, writerId |-> WRITER.writerId,
                       rating |-> req.rating])]
             AVERAGE_RATING ==
               Exists(d1.avgs, LAMBDA a : a.writerId = WRITER.writerId)
         IN IF AVERAGE_RATING
            THEN
              LET old == FirstRow(d1.avgs,
                           LAMBDA a : a.writerId = WRITER.writerId).rating
                  n == Count(d1.ratings,
                             LAMBDA r : r.writerId = WRITER.writerId)
                  new == NEW_AVERAGE_RATING(old, n, req.rating)
              IN Outcome([d1 EXCEPT !.avgs = MapRows(@, LAMBDA a :
                            IF a.writerId = WRITER.writerId
                            THEN [a EXCEPT !.rating = new] ELSE a)],
                         Resolved([bare |-> TRUE]))
            ELSE Outcome([d1 EXCEPT !.avgs = Append(@,
                            [writerId |-> WRITER.writerId,
                             rating |-> Frac(req.rating, 1)])],
                         Resolved([bare |-> TRUE]))

----------------------------------------------------------------------------
(* Order Query / Projection: getOrders (lines 1071-1252), orderDetails     *)
(* (lines 1265-1479)                                                       *)

\* getClientId (lines 970-988): NULL stands for the TypeError of reading
\* .id of a missing User or Client row.
getClientId(email) == ClientIdOf(UserIdOf(toLowerCase(email)))

ListedOrder(o) == [id |-> o.id, pageCount |-> o.pageCount, status |-> o.status]

\* OrderStatus include: id: req.orderStatusID ? req.orderStatusID : { gt: 0 }
\* (a status is named here by its label; "" is the absent, falsy filter).
StatusMatches(o, orderStatusID) ==
  IF orderStatusID # "" THEN o.status = orderStatusID ELSE TRUE

REVISABLE_ORDER_STATUSES == {"Completed", "Submitted", "Undergoing revision"}

\* The OrderFile include of lines 1179-1196: where isDeleted is false, of
\* any type.
ListedFile(f) ==
  [fileUrl |-> f.fileUrl, originalName |-> f.originalName, type |-> f.type]

\* The single-order shape (lines 1131-1249): the order of the id that
\* belongs to the client, with its non-deleted files; reading .dataValues of
\* a null order throws.
getOneOrder(d, CLIENT_ID, req) ==
  IF ~Exists(d.orders, LAMBDA o : o.clientId = CLIENT_ID /\ o.id = req.orderId)
  THEN Outcome(d, Rejected)
  ELSE
    LET order == FirstRow(d.orders, LAMBDA o :
                   o.clientId = CLIENT_ID /\ o.id = req.orderId)
        revisable == order.status \in REVISABLE_ORDER_STATUSES
    IN Outcome(d, Resolved(
         [details |->
            [id |-> order.id, pageCount |-> order.pageCount,
             status |-> order.status,
             OrderFile |->
               MapRows(SelectRows(d.files, LAMBDA f :
                         f.orderId = order.id /\ ~f.isDeleted),
                       ListedFile)],
          revisable |-> revisable,
          revisionInstructions |->
            IF revisable
            THEN SelectRows(d.revisions, LAMBDA r :
                   r.orderId = req.orderId /\ ~r.submitted)
            ELSE <<>>,
          rated |-> Exists(d.ratings, LAMBDA r : r.orderId = req.orderId)]))

\* The list shape (req.multiple): the client's non-deleted orders; else the
\* single-order shape.
getOrders(d, req) ==
  LET CLIENT_ID == getClientId(req.email)
  IN IF CLIENT_ID = NULL THEN Outcome(d, Rejected)
     ELSE IF req.multiple
     THEN Outcome(d, Resolved([orders |->
            MapRows(SelectRows(d.orders, LAMBDA o :
                      o.clientId = CLIENT_ID /\ ~o.isDeleted
                      /\ StatusMatches(o, req.orderStatusID)),
                    ListedOrder)]))
     ELSE getOneOrder(d, CLIENT_ID, req)

UNPAID_ORDERS_STATUSES ==
  {"Pending payment", "Pending writer acknowledgement", "Available",
   "Bidding ongoing"}

\* Order.findOne({ where: myQuery, order: [['createdAt', 'DESC']] }): the
\* client's most recently created order (ids grow with creation).
LATEST_ORDER(d, clientId, orderId) ==
  LET mine == SelectRows(d.orders, LAMBDA o :
                o.clientId = clientId /\ (orderId # NULL => o.id = orderId))
  IN IF Len(mine) = 0 THEN [id |-> NULL]
     ELSE CHOOSE o \in {mine[i] : i \in 1..Len(mine)} :
            \A i \in 1..Len(mine) : mine[i].id <= o.id

\* PaperDiscount.findOne({ where: { lowerLimit: { [Op.gte]: pageCount } } }).
TierQualifies(tier, pageCount) == tier.lowerLimit >= pageCount

\* What that findOne resolves to: the first qualifying row of the table, or
\* null when none qualifies (the specifications draw the table in every
\* row order).
DISCOUNT(d, pageCount) ==
  IF Exists(d.tiers, LAMBDA t : TierQualifies(t, pageCount))
  THEN [kind |-> "row",
        discount |-> FirstRow(d.tiers,
                       LAMBDA t : TierQualifies(t, pageCount)).discount]
  ELSE [kind |-> "null"]

\* const finalDiscount = LATEST_ORDER.pageCount === 1 ? 0 : DISCOUNT
finalDiscount(pageCount, discountRow) ==
  IF pageCount = 1 THEN [kind |-> "number", discount |-> 0] ELSE discountRow

\* orderDetails(client, orderId, gotStarted).
orderDetails(d, client, orderId, gotStarted) ==
  LET latest == LATEST_ORDER(d, client, orderId)
  IN IF latest.id # NULL
     THEN
       LET orderAlreadyPaid ==
             gotStarted \/ latest.status \notin UNPAID_ORDERS_STATUSES
       IN IF orderAlreadyPaid
          THEN Outcome(d, Resolved([type |-> "Client", orderDetails |-> NULL,
                                    orderPostingStep |-> "Finished"]))
          ELSE Outcome(d, Resolved(
                 [type |-> "Client", orderDetails |-> latest.id,
                  pageCount |-> latest.pageCount,
                  paperDiscount |->
                    finalDiscount(latest.pageCount,
                                  DISCOUNT(d, latest.pageCount)),
                  orderAlreadyPaidFor |-> ORDER_ALREADY_PAID_FOR(d, latest.id),
                  orderFiles |->
                    SelectRows(d.files, LAMBDA f :
                      f.orderId = latest.id /\ ~f.isDeleted
                      /\ f.type = "Client Supporting")]))
     ELSE Outcome(d, Resolved([type |-> "Client", orderDetails |-> NULL,
                               orderPostingStep |-> "null"]))

----------------------------------------------------------------------------
(* Revision and completion: confirmOrderOwnership (lines 1520-1532),       *)
(* revisionRequest (lines 1536-1662), confirmOrderCompletion (lines        *)
(* 1665-1719)                                                              *)

OwnedOrder_anyClient(d, orderId, clientId) ==
  Exists(d.orders, LAMBDA o : o.id = orderId)

\* Order.findOne({ where: { id: req.orderId, clientId: CLIENT_ID } }).
OwnedOrder(d, orderId, clientId) ==
  Exists(d.orders, LAMBDA o : o.id = orderId /\ o.clientId = clientId)

\* confirmOrderOwnership: the row found, or null; getClientId throws when
\* the email has no User or Client row.
confirmOrderOwnership(d, req) ==
  LET CLIENT_ID == getClientId(req.email)
  IN IF CLIENT_ID = NULL THEN Rejected
     ELSE Resolved(OwnedOrder(d, req.orderId, CLIENT_ID))

CHECKLIST_everyEntry(REQ_CHECKLIST) ==
  [key \in DOMAIN REQ_CHECKLIST |-> REQ_CHECKLIST[key].val]

\* for (const key in REQ_CHECKLIST) if (REQ_CHECKLIST[key].key)
\*   CHECKLIST[key] = REQ_CHECKLIST[key].val   (lines 1562-1570)
CHECKLIST(REQ_CHECKLIST) ==
  [key \in {k \in DOMAIN REQ_CHECKLIST : REQ_CHECKLIST[k].key} |->
     REQ_CHECKLIST[key].val]

\* OrderRevision.create({...}) of lines 1632-1639.
RevisionRow(orderId, revisionInstructions, creator) ==
  [orderId |-> orderId, revisionInstructions |-> revisionInstructions,
   creator |-> creator, submitted |-> FALSE, isDeleted |-> FALSE]

\* The loop of lines 1581-1595: every file is created, of type 'Revision
\* Supporting', without an existence check.
RECURSIVE AttachRevisionFiles(_, _, _)
AttachRevisionFiles(req, i, pending) ==
  IF i > Len(req.supportingFiles) THEN [ok |-> TRUE, files |-> pending]
  ELSE LET file == req.supportingFiles[i]
           FINAL_ORIGINAL_NAME == originalNameFormatter(file.originalName)
       IN IF FINAL_ORIGINAL_NAME.threw \/ req.fail = "file"
          THEN [ok |-> FALSE, files |-> pending]
          ELSE AttachRevisionFiles(req, i + 1,
                 Append(pending,
                        FileRow(req.orderId, file, FINAL_ORIGINAL_NAME.val,
                                "Revision Supporting")))

revisionRequest(d, req) ==
  LET USER == UserIdOf(toLowerCase(req.email))
      CLIENT_ID == getClientId(req.email)
  IN IF CLIENT_ID = NULL THEN Outcome(d, Rejected)
     ELSE IF OwnedOrder(d, req.orderId, CLIENT_ID)
     THEN
       LET loop == AttachRevisionFiles(req, 1, <<>>)
           tx == [EmptyTx EXCEPT !.files = loop.files]
       IN IF ~loop.ok THEN Outcome(Rollback(d, tx), Rejected)
          ELSE
            LET ORDER_STATUS == OrderById(d, req.orderId).status
                d1 == IF ORDER_STATUS # "Undergoing revision"
                      THEN SetOrderStatus(d, req.orderId,
                                          "Undergoing revision")
                      ELSE d
            IN IF req.fail = "revision"
               THEN Outcome(Rollback(d1, tx), Rejected)
               ELSE Outcome(
                      Commit(d1, [tx EXCEPT !.revisions =
                        <<RevisionRow(req.orderId, CHECKLIST(req.checklist),
                                      USER)>>]),
                      Resolved([success |-> TRUE]))
     ELSE Outcome(d, Resolved([success |-> FALSE,
                               message |-> "Order does not exist"]))

\* Order.update({ statusId: Completed }, { where: { id, clientId } }).
CompleteOrder(d, orderId, clientId) ==
  [d EXCEPT !.orders = MapRows(@, LAMBDA o :
     IF o.id = orderId /\ o.clientId = clientId
     THEN [o EXCEPT !.status = "Completed"] ELSE o)]

\* Order.update resolves to the array [affectedCount], whose length is 1
\* (line 1706).
statusUpdatedLength(affectedCount) == 1

confirmOrderCompletion(d, req) ==
  LET belongs == confirmOrderOwnership(d, req)
  IN IF belongs.rejected THEN Outcome(d, Rejected)
     ELSE IF belongs.val
     THEN LET CLIENT_ID == ClientIdOf(UserIdOf(toLowerCase(req.email)))
              affectedCount ==
                Count(d.orders, LAMBDA o : o.id = req.orderId
                                           /\ o.clientId = CLIENT_ID)
          IN Outcome(CompleteOrder(d, req.orderId, CLIENT_ID),
                     Resolved([updated |->
                                 statusUpdatedLength(affectedCount) > 0]))
     ELSE Outcome(d, Resolved([updated |-> FALSE]))

----------------------------------------------------------------------------
(* removeFile (lines 676-727) and sendWriterInvite (lines 645-673)         *)

\* OrderFile.update({ isDeleted: true }, { where: { orderId, fileUrl, type } }).
MarkFileDeleted(d, orderId, filename) ==
  [d EXCEPT !.files = MapRows(@, LAMBDA f :
     IF f.orderId = orderId /\ f.fileUrl = filename
        /\ f.type = "Client Supporting"
     THEN [f EXCEPT !.isDeleted = TRUE] ELSE f)]

removeFile(d, req) ==
  IF FileExists(d, req.orderId, req.filename)
  THEN Outcome(MarkFileDeleted(d, req.orderId, req.filename),
               Resolved([itemDeleted |-> TRUE]))
  ELSE Outcome(d, Resolved([itemDeleted |-> FALSE,
                            message |-> "Item not found"]))

sendWriterInvite(d, req) ==
  LET CLIENT_ID == getClientId(req.email)
      INVITATION_ALREADY_EXISTS ==
        Exists(d.invites, LAMBDA v : v.email = req.writerEmail)
  IN IF CLIENT_ID = NULL THEN Outcome(d, Rejected)
     ELSE IF INVITATION_ALREADY_EXISTS
     THEN Outcome(d, Resolved([success |-> FALSE,
                               message |-> "Invitation already exists!"]))
     ELSE Outcome([d EXCEPT !.invites = Append(@,
                     [email |-> req.writerEmail, clientId |-> CLIENT_ID])],
                  Resolved([success |-> TRUE,
                            message |-> "Invitation sent successfully"]))

----------------------------------------------------------------------------
(* Requests                                                                *)

MaxOrders == 2

MaxSteps == 1

MaxFileRows == 1

MaxPays == 1

MaxReqFiles == 1

MaxAssign == 2

ShortName == <<"a", ".", "p", "d", "f">>

LongName == Segment(1, 60) \o <<".", "p", "d", "f">>

Descriptors ==
  { [fileUrl |-> "u1", originalName |-> ShortName],
    [fileUrl |-> "u2", originalName |-> LongName] }

FileLists == UNION {[1..k -> Descriptors] : k \in 0..MaxReqFiles}

\* A failing insert or update of one table ("none": every statement
\* succeeds) and the currency code of the payment summary; "XXX" is a code
\* with no Currency row.
Faults ==
  {[fail |-> "none", currencyCode |-> "USD"],
   [fail |-> "none", currencyCode |-> "XXX"]}
  \cup [fail : {"step", "file", "pay"}, currencyCode : {"USD"}]

Contents ==
  {[type |-> "public", totalPrice |-> 10],
   [type |-> "private", totalPrice |-> 20]}

SaveReq(email, orderId, content, files, fault) ==
  [email |-> email, orderId |-> orderId, type |-> content.type,
   pageCount |-> 2, supportingFiles |-> files,
   currencyCode |-> fault.currencyCode, totalPrice |-> content.totalPrice,
   fail |-> fault.fail]

SaveReqs ==
  {SaveReq(e, o, c, f, x) :
     e \in {"A@X"}, o \in 0..MaxOrders, c \in Contents,
     f \in FileLists, x \in Faults}

ListReqs ==
  [email : {"A@X", "b@x", "nobody@x"}, multiple : {TRUE},
   orderStatusID : {"", "Available"}]

\* The tables stay within the bounds of the model.
Bounded(d) ==
  /\ d.orderSeq <= MaxOrders
  /\ Len(d.steps) <= MaxSteps
  /\ Len(d.files) <= MaxFileRows
  /\ Len(d.pays) <= MaxPays
  /\ Len(d.worders) <= MaxAssign

\* The record of a call: the operation, its request and what it resolved
\* to or that it rejected.
Called(op, req, res) == [op |-> op, req |-> req, res |-> res]

NoCall ==
  [op |-> "none", req |-> [email |-> "none"], res |-> Resolved([none |-> TRUE])]

\* The invocations under way: the two callers a concurrent run has, each
\* idle or at an await of the function it called.
Procs == {1, 2}

Idle == [pc |-> "idle"]

NoCalls == [p \in Procs |-> Idle]

\* One order exists at the start.
Init ==
  /\ db = SeedDb
  /\ last = NoCall
  /\ calls = NoCalls

----------------------------------------------------------------------------
(* Placement: saveOrderDetails calls and getOrders lists                   *)

SaveOrderDetails ==
  \E req \in SaveReqs :
    LET out == saveOrderDetails(db, req)
    IN /\ Bounded(out.db)
       /\ db' = out.db
       /\ last' = Called("saveOrderDetails", req, out.res)
       /\ calls' = calls

GetOrders ==
  \E req \in ListReqs :
    LET out == getOrders(db, req)
    IN /\ Bounded(out.db)
       /\ db' = out.db
       /\ last' = Called("getOrders", req, out.res)
       /\ calls' = calls

NextPlace == SaveOrderDetails \/ GetOrders

SpecPlace == Init /\ [][NextPlace]_vars

----------------------------------------------------------------------------
(* Payment recording: saveOrderPaymentDetails calls on the seeded order    *)
(* and on orders placed through the create branch                          *)

PlaceReqs ==
  {SaveReq("A@X", 0, c, <<>>, [fail |-> "none", currencyCode |-> "USD"]) :
     c \in Contents}

PayReqs ==
  {[email |-> e, orderId |-> o, currencyCode |-> x.currencyCode,
    totalPrice |-> p, fail |-> x.fail] :
     e \in {"A@X", "nobody@x"}, o \in 0..MaxOrders, p \in {10, 30},
     x \in {y \in Faults : y.fail # "file"}}

PlaceOrder ==
  \E req \in PlaceReqs :
    LET out == saveOrderDetails(db, req)
    IN /\ Bounded(out.db)
       /\ db' = out.db
       /\ last' = Called("saveOrderDetails", req, out.res)
       /\ calls' = calls

SaveOrderPaymentDetails ==
  \E req \in PayReqs :
    LET out == saveOrderPaymentDetails(db, req)
    IN /\ Bounded(out.db)
       /\ db' = out.db
       /\ last' = Called("saveOrderPaymentDetails", req, out.res)
       /\ calls' = calls

NextPay == PlaceOrder \/ SaveOrderPaymentDetails

SpecPay == Init /\ [][NextPay]_vars

----------------------------------------------------------------------------
(* Assignment and rating: updateOrderStatus and rateWriter calls           *)

AssignReqs ==
  [orderId : 1..MaxOrders, writerId : {3, 4, 9}, type : {"public", "private"},
   fail : {"none", "worder"}]

RateReqs ==
  [orderId : 1..MaxOrders, rating : {2, 5}, fail : {"none", "rating"}]

UpdateOrderStatus ==
  \E req \in AssignReqs :
    LET out == updateOrderStatus(db, req)
    IN /\ Bounded(out.db)
       /\ db' = out.db
       /\ last' = Called("updateOrderStatus", req, out.res)
       /\ calls' = calls

RateWriter ==
  \E req \in RateReqs :
    LET out == rateWriter(db, req)
    IN /\ Bounded(out.db)
       /\ db' = out.db
       /\ last' = Called("rateWriter", req, out.res)
       /\ calls' = calls

\* The seeded order may have a ClientPayment row of status 'Success'.
InitAssign ==
  /\ \E paid \in SUBSET {1} : db = [SeedDb EXCEPT !.paid = paid]
  /\ last = NoCall
  /\ calls = NoCalls

NextAssign == UpdateOrderStatus \/ RateWriter

SpecAssign == InitAssign /\ [][NextAssign]_vars

----------------------------------------------------------------------------
(* The filename sanitizer applied to the input names                       *)

\* A name handed to the sanitizer, not yet formatted.
InitFmt ==
  /\ db = SeedDb
  /\ \E name \in Names :
       last = Called("call", [originalName |-> name], Returned(<<>>))
  /\ calls = NoCalls

OriginalNameFormatter ==
  /\ last.op = "call"
  /\ db' = db
  /\ last' = Called("originalNameFormatter", last.req,
                    originalNameFormatter(last.req.originalName))
  /\ calls' = calls

NextFmt == OriginalNameFormatter

SpecFmt == InitFmt /\ [][NextFmt]_vars

----------------------------------------------------------------------------
(* The resume projection over a client's latest order and the configured   *)
(* discount tiers                                                          *)

MaxTiers == 2

MaxPages == 5

TierRows == {[lowerLimit |-> l, discount |-> 5 * l] : l \in {2, 4}}

TierConfigs == UNION {[1..k -> TierRows] : k \in 0..MaxTiers}

DetailReqs == [client : {21, 22}, orderId : {NULL, 1}, gotStarted : BOOLEAN]

\* The seeded order with any page count, unpaid or under way, and any
\* configuration of the PaperDiscount table.
InitDiscount ==
  /\ \E tiers \in TierConfigs, pageCount \in 1..MaxPages,
        status \in {"Available", "Pending payment", "Ongoing"} :
       db = [SeedDb EXCEPT
               !.tiers = tiers,
               !.orders = <<[SeedOrder EXCEPT !.pageCount = pageCount,
                                              !.status = status]>>]
  /\ last = NoCall
  /\ calls = NoCalls

OrderDetails ==
  \E req \in DetailReqs :
    LET out == orderDetails(db, req.client, req.orderId, req.gotStarted)
    IN /\ db' = out.db
       /\ last' = Called("orderDetails", req, out.res)
       /\ calls' = calls

NextDiscount == OrderDetails

SpecDiscount == InitDiscount /\ [][NextDiscount]_vars

----------------------------------------------------------------------------
(* The workflows together: placement, payment recording, assignment,       *)
(* rating, revision, completion, file removal, invitations and the list    *)

MaxRevisions == 1

MaxInvites == 1

\* Lists of the one descriptor with the short name.
WorkFileLists ==
  {f \in FileLists : \A i \in 1..Len(f) : f[i].fileUrl = "u1"}

\* A checklist with one entry marked and one not.
WorkChecklist ==
  [grammar |-> [key |-> TRUE, val |-> "fix the grammar"],
   format |-> [key |-> FALSE, val |-> "fix the format"]]

ReviseReqs ==
  [email : {"A@X", "B@X"}, orderId : 1..MaxOrders,
   checklist : {WorkChecklist},
   supportingFiles : WorkFileLists, fail : {"none", "revision"}]

CompleteReqs == [email : {"A@X", "B@X"}, orderId : 1..MaxOrders]

RemoveReqs == [orderId : 1..MaxOrders, filename : {"u1"}]

InviteReqs == [email : {"A@X"}, writerEmail : {"w@x"}]

\* updateOrderPayment called directly, in either phase, with or without a
\* requestOrderId.
DirectPayReqs ==
  [email : {"A@X"}, orderId : 0..1, currencyCode : {"USD"},
   totalPrice : {10}, fail : {"none"}, phase : {"check-order", "place-order"},
   requestOrderId : {NULL, 1}]

WorkSaveReqs ==
  {SaveReq("A@X", o, [type |-> "public", totalPrice |-> 10], f,
           [fail |-> "none", currencyCode |-> "USD"]) :
     o \in 0..1, f \in WorkFileLists}

WorkAssignReqs ==
  [orderId : {1}, writerId : {3}, type : {"public", "private"},
   fail : {"none"}]

WorkRateReqs == [orderId : {1}, rating : {5}, fail : {"none"}]

BoundedWork(d) ==
  /\ Bounded(d)
  /\ Len(d.revisions) <= MaxRevisions
  /\ Len(d.invites) <= MaxInvites

PlaceOrUpdate ==
  \E req \in WorkSaveReqs :
    LET out == saveOrderDetails(db, req)
    IN /\ BoundedWork(out.db)
       /\ db' = out.db
       /\ last' = Called("saveOrderDetails", req, out.res)
       /\ calls' = calls

UpdateOrderPayment ==
  \E req \in DirectPayReqs :
    LET out == updateOrderPayment(db, req, req.phase, req.requestOrderId)
    IN /\ BoundedWork(out.db)
       /\ db' = out.db
       /\ last' = Called("updateOrderPayment", req, out.res)
       /\ calls' = calls

AssignWriter ==
  \E req \in WorkAssignReqs :
    LET out == updateOrderStatus(db, req)
    IN /\ BoundedWork(out.db)
       /\ db' = out.db
       /\ last' = Called("updateOrderStatus", req, out.res)
       /\ calls' = calls

RateAssigned ==
  \E req \in WorkRateReqs :
    LET out == rateWriter(db, req)
    IN /\ BoundedWork(out.db)
       /\ db' = out.db
       /\ last' = Called("rateWriter", req, out.res)
       /\ calls' = calls

RevisionRequest ==
  \E req \in ReviseReqs :
    LET out == revisionRequest(db, req)
    IN /\ BoundedWork(out.db)
       /\ db' = out.db
       /\ last' = Called("revisionRequest", req, out.res)
       /\ calls' = calls

ConfirmOrderCompletion ==
  \E req \in CompleteReqs :
    LET out == confirmOrderCompletion(db, req)
    IN /\ BoundedWork(out.db)
       /\ db' = out.db
       /\ last' = Called("confirmOrderCompletion", req, out.res)
       /\ calls' = calls

RemoveFile ==
  \E req \in RemoveReqs :
    LET out == removeFile(db, req)
    IN /\ BoundedWork(out.db)
       /\ db' = out.db
       /\ last' = Called("removeFile", req, out.res)
       /\ calls' = calls

SendWriterInvite ==
  \E req \in InviteReqs :
    LET out == sendWriterInvite(db, req)
    IN /\ BoundedWork(out.db)
       /\ db' = out.db
       /\ last' = Called("sendWriterInvite", req, out.res)
       /\ calls' = calls

ListOrders ==
  \E req \in {r \in ListReqs : r.email = "A@X" /\ r.orderStatusID = ""} :
    LET out == getOrders(db, req)
    IN /\ db' = out.db
       /\ last' = Called("getOrders", req, out.res)
       /\ calls' = calls

NextWork ==
  \/ PlaceOrUpdate
  \/ UpdateOrderPayment
  \/ AssignWriter
  \/ RateAssigned
  \/ RevisionRequest
  \/ ConfirmOrderCompletion
  \/ RemoveFile
  \/ SendWriterInvite
  \/ ListOrders

SpecWork == Init /\ [][NextWork]_vars

----------------------------------------------------------------------------
(* Two concurrent updateOrderStatus invocations, one await at a time       *)
(* (lines 861-967).  The reads are not in the transaction and see          *)
(* committed rows; the two updates are committed when they run; the        *)
(* WriterOrder insert is pending until the transaction callback returns.   *)

RaceAssignReqs ==
  [orderId : {1}, writerId : {3, 9}, type : {"public", "private"},
   fail : {"none", "worder"}]

Running == {p \in Procs : calls[p].pc # "idle"}

\* A caller invokes updateOrderStatus.
BeginAssign ==
  \E p \in Procs, req \in RaceAssignReqs :
    /\ calls[p].pc = "idle"
    /\ Len(db.worders) + Cardinality(Running) < MaxAssign
    /\ calls' = [calls EXCEPT ![p] =
                   [pc |-> "paid", op |-> "updateOrderStatus", req |-> req]]
    /\ UNCHANGED <<db, last>>

\* await ClientPayment.findOne(...): orderStatus is decided (lines 866-886).
AssignReadPaid ==
  \E p \in Procs :
    /\ calls[p].pc = "paid"
    /\ calls' = [calls EXCEPT ![p] =
                   [pc |-> "status", op |-> @.op, req |-> @.req,
                    orderStatus |-> TargetStatus(db, @.req)]]
    /\ UNCHANGED <<db, last>>

\* await Order.update(...) (lines 896-902).
AssignWriteStatus ==
  \E p \in Procs :
    /\ calls[p].pc = "status"
    /\ db' = SetOrderStatus(db, calls[p].req.orderId, calls[p].orderStatus)
    /\ calls' = [calls EXCEPT ![p] =
                   [pc |-> "writer", op |-> @.op, req |-> @.req]]
    /\ UNCHANGED last

\* await Writer.findOne(...) (lines 908-913); reading WRITER.id of a missing
\* row throws and the call rejects.
AssignFindWriter ==
  \E p \in Procs :
    /\ calls[p].pc = "writer"
    /\ LET WRITER == WriterIdOf(calls[p].req.writerId)
       IN IF WRITER = NULL
          THEN /\ calls' = [calls EXCEPT ![p] = Idle]
               /\ last' = Called(calls[p].op, calls[p].req, Rejected)
          ELSE /\ calls' = [calls EXCEPT ![p] =
                             [pc |-> "chosen", op |-> @.op, req |-> @.req,
                              WRITER |-> WRITER]]
               /\ UNCHANGED last
    /\ UNCHANGED db

\* await WriterOrder.findOne(...) (lines 915-921).
AssignCheckChosen ==
  \E p \in Procs :
    /\ calls[p].pc = "chosen"
    /\ calls' = [calls EXCEPT ![p] =
                   [pc |-> "bid", op |-> @.op, req |-> @.req,
                    WRITER |-> @.WRITER,
                    WRITER_ALREADY_CHOSEN |->
                      WRITER_ALREADY_CHOSEN(db, @.req.orderId, @.WRITER)]]
    /\ UNCHANGED <<db, last>>

\* await OrderBid.update(...) for a public request (lines 922-932); a call
\* that found the writer chosen returns here (lines 934-935).
AssignMarkBid ==
  \E p \in Procs :
    /\ calls[p].pc = "bid"
    /\ db' = IF calls[p].req.type = "public"
             THEN MarkBid(db, calls[p].req.orderId, calls[p].WRITER)
             ELSE db
    /\ IF calls[p].WRITER_ALREADY_CHOSEN
       THEN /\ calls' = [calls EXCEPT ![p] = Idle]
            /\ last' = Called(calls[p].op, calls[p].req,
                              Resolved([statusUpdated |-> TRUE,
                                        writerAlreadyChosen |-> TRUE]))
       ELSE /\ calls' = [calls EXCEPT ![p] =
                          [pc |-> "create", op |-> @.op, req |-> @.req,
                           WRITER |-> @.WRITER]]
            /\ UNCHANGED last

\* await WriterOrder.create(..., { transaction: t }) (lines 938-941): the
\* row is pending, or the insert fails and the call rejects.
AssignCreate ==
  \E p \in Procs :
    /\ calls[p].pc = "create"
    /\ IF calls[p].req.fail = "worder"
       THEN /\ calls' = [calls EXCEPT ![p] = Idle]
            /\ last' = Called(calls[p].op, calls[p].req, Rejected)
       ELSE /\ calls' = [calls EXCEPT ![p] =
                          [pc |-> "commit", op |-> @.op, req |-> @.req,
                           tx |-> [EmptyTx EXCEPT !.worders =
                                     <<[orderId |-> calls[p].req.orderId,
                                        writerId |-> calls[p].WRITER]>>]]]
            /\ UNCHANGED last
    /\ UNCHANGED db

\* The transaction callback returned: commit.
AssignCommit ==
  \E p \in Procs :
    /\ calls[p].pc = "commit"
    /\ db' = Commit(db, calls[p].tx)
    /\ calls' = [calls EXCEPT ![p] = Idle]
    /\ last' = Called(calls[p].op, calls[p].req,
                      Resolved([statusUpdated |-> TRUE,
                                writerAlreadyChosen |-> FALSE]))

NextRaceAssign ==
  \/ BeginAssign
  \/ AssignReadPaid
  \/ AssignWriteStatus
  \/ AssignFindWriter
  \/ AssignCheckChosen
  \/ AssignMarkBid
  \/ AssignCreate
  \/ AssignCommit

SpecRaceAssign == InitAssign /\ [][NextRaceAssign]_vars

----------------------------------------------------------------------------
(* Two concurrent rateWriter invocations, one await at a time (lines       *)
(* 991-1068).  rateWriter opens no transaction: every write is committed   *)
(* when it runs.                                                           *)

MaxRatings == 2

RaceRateReqs == [orderId : {1}, rating : {2, 5}, fail : {"none"}]

\* Order 1 is assigned to writer 11, who has no rating yet or one rating
\* of 4 from an earlier order.
InitRate ==
  /\ \E prior \in BOOLEAN :
       db = [SeedDb EXCEPT
               !.worders = <<[orderId |-> 1, writerId |-> 11]>>,
               !.ratings = IF prior
                           THEN <<[orderId |-> 7, writerId |-> 11,
                                   rating |-> 4]>>
                           ELSE <<>>,
               !.avgs = IF prior
                        THEN <<[writerId |-> 11, rating |-> Frac(4, 1)]>>
                        ELSE <<>>]
  /\ last = NoCall
  /\ calls = NoCalls

\* A caller invokes rateWriter.
BeginRate ==
  \E p \in Procs, req \in RaceRateReqs :
    /\ calls[p].pc = "idle"
    /\ Count(db.ratings, LAMBDA r : r.orderId = req.orderId)
         + Cardinality(Running) < MaxRatings
    /\ calls' = [calls EXCEPT ![p] =
                   [pc |-> "rated", op |-> "rateWriter", req |-> req]]
    /\ UNCHANGED <<db, last>>

\* await WriterRating.findOne({ where: { orderId } }) (lines 994-1002).
RateCheckRated ==
  \E p \in Procs :
    /\ calls[p].pc = "rated"
    /\ IF ORDER_ALREADY_RATED(db, calls[p].req.orderId)
       THEN /\ calls' = [calls EXCEPT ![p] = Idle]
            /\ last' = Called(calls[p].op, calls[p].req,
                              Resolved([rated |-> TRUE]))
       ELSE /\ calls' = [calls EXCEPT ![p] =
                          [pc |-> "writer", op |-> @.op, req |-> @.req]]
            /\ UNCHANGED last
    /\ UNCHANGED db

\* await WriterOrder.findOne({ where: { orderId } }) (lines 1003-1008).
RateFindWriter ==
  \E p \in Procs :
    /\ calls[p].pc = "writer"
    /\ Exists(db.worders, LAMBDA w : w.orderId = calls[p].req.orderId)
    /\ calls' = [calls EXCEPT ![p] =
                   [pc |-> "ratedBy", op |-> @.op, req |-> @.req,
                    WRITER |-> FirstRow(db.worders, LAMBDA w :
                                 w.orderId = calls[p].req.orderId).writerId]]
    /\ UNCHANGED <<db, last>>

\* await WriterRating.findOne({ where: { orderId, writerId } }) (lines
\* 1009-1017).
RateCheckWriterRated ==
  \E p \in Procs :
    /\ calls[p].pc = "ratedBy"
    /\ IF Exists(db.ratings, LAMBDA r : r.orderId = calls[p].req.orderId
                                        /\ r.writerId = calls[p].WRITER)
       THEN /\ calls' = [calls EXCEPT ![p] = Idle]
            /\ last' = Called(calls[p].op, calls[p].req,
                              Resolved([bare |-> TRUE]))
       ELSE /\ calls' = [calls EXCEPT ![p] =
                          [pc |-> "create", op |-> @.op, req |-> @.req,
                           WRITER |-> @.WRITER]]
            /\ UNCHANGED last
    /\ UNCHANGED db

\* await WriterRating.create(...) (lines 1019-1023).
RateCreate ==
  \E p \in Procs :
    /\ calls[p].pc = "create"
    /\ db' = [db EXCEPT !.ratings = Append(@,
                [orderId |-> calls[p].req.orderId,
                 writerId |-> calls[p].WRITER,
                 rating |-> calls[p].req.rating])]
    /\ calls' = [calls EXCEPT ![p] =
                   [pc |-> "average", op |-> @.op, req |-> @.req,
                    WRITER |-> @.WRITER]]
    /\ UNCHANGED last

\* await WriterAverageRating.findOne({ where: { writerId } }) (lines
\* 1026-1032).
RateFindAverage ==
  \E p \in Procs :
    /\ calls[p].pc = "average"
    /\ IF Exists(db.avgs, LAMBDA a : a.writerId = calls[p].WRITER)
       THEN calls' = [calls EXCEPT ![p] =
                        [pc |-> "previous", op |-> @.op, req |-> @.req,
                         WRITER |-> @.WRITER,
                         AVERAGE_RATING |->
                           FirstRow(db.avgs, LAMBDA a :
                             a.writerId = calls[p].WRITER).rating]]
       ELSE calls' = [calls EXCEPT ![p] =
                        [pc |-> "createAverage", op |-> @.op, req |-> @.req,
                         WRITER |-> @.WRITER]]
    /\ UNCHANGED <<db, last>>

\* await WriterRating.findAll({ where: { writerId } }) (lines 1033-1038).
RateCountPrevious ==
  \E p \in Procs :
    /\ calls[p].pc = "previous"
    /\ calls' = [calls EXCEPT ![p] =
                   [pc |-> "updateAverage", op |-> @.op, req |-> @.req,
                    WRITER |-> @.WRITER, AVERAGE_RATING |-> @.AVERAGE_RATING,
                    PREVIOUS_RATINGS |->
                      Count(db.ratings, LAMBDA r :
                        r.writerId = calls[p].WRITER)]]
    /\ UNCHANGED <<db, last>>

\* await WriterAverageRating.update(...) (lines 1039-1048).
RateUpdateAverage ==
  \E p \in Procs :
    /\ calls[p].pc = "updateAverage"
    /\ db' = [db EXCEPT !.avgs = MapRows(@, LAMBDA a :
                IF a.writerId = calls[p].WRITER
                THEN [a EXCEPT !.rating =
                        NEW_AVERAGE_RATING(calls[p].AVERAGE_RATING,
                                           calls[p].PREVIOUS_RATINGS,
                                           calls[p].req.rating)]
                ELSE a)]
    /\ calls' = [calls EXCEPT ![p] = Idle]
    /\ last' = Called(calls[p].op, calls[p].req, Resolved([bare |-> TRUE]))

\* await WriterAverageRating.create(...) (lines 1053-1057).
RateCreateAverage ==
  \E p \in Procs :
    /\ calls[p].pc = "createAverage"
    /\ db' = [db EXCEPT !.avgs = Append(@,
                [writerId |-> calls[p].WRITER,
                 rating |-> Frac(calls[p].req.rating, 1)])]
    /\ calls' = [calls EXCEPT ![p] = Idle]
    /\ last' = Called(calls[p].op, calls[p].req, Resolved([bare |-> TRUE]))

NextRaceRate ==
  \/ BeginRate
  \/ RateCheckRated
  \/ RateFindWriter
  \/ RateCheckWriterRated
  \/ RateCreate
  \/ RateFindAverage
  \/ RateCountPrevious
  \/ RateUpdateAverage
  \/ RateCreateAverage

SpecRaceRate == InitRate /\ [][NextRaceRate]_vars

----------------------------------------------------------------------------
(* Placement with supporting-file lists that may name a file twice         *)

MaxListed == 2

MaxAttached == 3

ListedFiles == UNION {[1..k -> Descriptors] : k \in 0..MaxListed}

AttachReqs ==
  {SaveReq("A@X", o, [type |-> "public", totalPrice |-> 10], f,
           [fail |-> "none", currencyCode |-> "USD"]) :
     o \in 0..MaxOrders, f \in ListedFiles}

BoundedFiles(d) ==
  /\ d.orderSeq <= MaxOrders
  /\ Len(d.files) <= MaxAttached
  /\ Len(d.pays) <= MaxOrders
  /\ Len(d.steps) <= MaxOrders

PlaceWithFiles ==
  \E req \in AttachReqs :
    LET out == saveOrderDetails(db, req)
    IN /\ BoundedFiles(out.db)
       /\ db' = out.db
       /\ last' = Called("saveOrderDetails", req, out.res)
       /\ calls' = calls

NextFiles == PlaceWithFiles

SpecFiles == Init /\ [][NextFiles]_vars

----------------------------------------------------------------------------
(* Sequential rateWriter calls from a store with no ratings                *)

MaxRated == 3

\* Ratings on the five-point scale; orders 1..MaxRated are rated.
SeqRateReqs ==
  [orderId : 1..MaxRated, rating : {1, 2, 5}, fail : {"none", "rating"}]

\* Every order is assigned to one of the two writers; no WriterRating and
\* no WriterAverageRating row exists.
InitRateSeq ==
  /\ \E assigned \in [1..MaxRated -> {11, 12}] :
       db = [SeedDb EXCEPT
               !.worders = [i \in 1..MaxRated |->
                              [orderId |-> i, writerId |-> assigned[i]]]]
  /\ last = NoCall
  /\ calls = NoCalls

RateWriterSeq ==
  \E req \in SeqRateReqs :
    LET out == rateWriter(db, req)
    IN /\ Len(out.db.ratings) <= MaxRated
       /\ db' = out.db
       /\ last' = Called("rateWriter", req, out.res)
       /\ calls' = calls

NextRateSeq == RateWriterSeq

SpecRate == InitRateSeq /\ [][NextRateSeq]_vars

----------------------------------------------------------------------------
(* Revision requests on an order in any status (lines 1536-1662)           *)

MaxRevised == 1

MaxRevisionFiles == 2

\* The OrderStatus labels, with 'Submitted', which the writer's side sets.
RevisionStatuses ==
  {"Available", "Pending payment", "Ongoing", "Submitted",
   "Undergoing revision", "Completed"}

\* Every marking of a two-entry checklist.
Checklists ==
  [{"grammar", "format"} -> [key : BOOLEAN, val : {"fix it"}]]

RevisionFileLists == UNION {[1..k -> Descriptors] : k \in 0..MaxRevisionFiles}

RevisionReqs ==
  [email : {"A@X", "B@X"}, orderId : {1}, checklist : Checklists,
   supportingFiles : RevisionFileLists, fail : {"none", "file", "revision"}]

\* Client 21's order 1 is in one of the statuses.
InitRevise ==
  /\ \E status \in RevisionStatuses :
       db = [SeedDb EXCEPT !.orders[1].status = status]
  /\ last = NoCall
  /\ calls = NoCalls

RevisionRequestAny ==
  \E req \in RevisionReqs :
    LET out == revisionRequest(db, req)
    IN /\ Len(out.db.revisions) <= MaxRevised
       /\ Len(out.db.files) <= MaxRevisionFiles
       /\ db' = out.db
       /\ last' = Called("revisionRequest", req, out.res)
       /\ calls' = calls

NextRevise == RevisionRequestAny

SpecRevise == InitRevise /\ [][NextRevise]_vars

----------------------------------------------------------------------------
(* Placement by two clients: saveOrderDetails with either client's email   *)

OwnerSaveReqs ==
  {SaveReq(e, o, c, f, x) :
     e \in {"A@X", "B@X"}, o \in 0..MaxOrders, c \in Contents,
     f \in WorkFileLists, x \in Faults}

SaveOrderDetailsByAny ==
  \E req \in OwnerSaveReqs :
    LET out == saveOrderDetails(db, req)
    IN /\ Bounded(out.db)
       /\ db' = out.db
       /\ last' = Called("saveOrderDetails", req, out.res)
       /\ calls' = calls

NextOwner == SaveOrderDetailsByAny

SpecOwner == Init /\ [][NextOwner]_vars

----------------------------------------------------------------------------
(* Supporting files attached, removed and listed again: saveOrderDetails,  *)
(* removeFile, and the two views that return an order's files              *)

MaxKept == 2

KeptSaveReqs ==
  {SaveReq("A@X", o, c, f, [fail |-> "none", currencyCode |-> "USD"]) :
     o \in 0..MaxOrders, c \in Contents, f \in WorkFileLists}

ShowReqs ==
  [email : {"A@X", "B@X"}, multiple : {FALSE}, orderId : 1..MaxOrders]

ResumeReqs ==
  [client : {21}, orderId : {NULL} \cup 1..MaxOrders, gotStarted : {FALSE}]

BoundedKept(d) ==
  /\ d.orderSeq <= MaxOrders
  /\ Len(d.steps) <= MaxSteps
  /\ Len(d.pays) <= MaxPays
  /\ Len(d.files) <= MaxKept

SaveWithFiles ==
  \E req \in KeptSaveReqs :
    LET out == saveOrderDetails(db, req)
    IN /\ BoundedKept(out.db)
       /\ db' = out.db
       /\ last' = Called("saveOrderDetails", req, out.res)
       /\ calls' = calls

RemoveFileKept ==
  \E req \in RemoveReqs :
    LET out == removeFile(db, req)
    IN /\ db' = out.db
       /\ last' = Called("removeFile", req, out.res)
       /\ calls' = calls

ShowOrder ==
  \E req \in ShowReqs :
    LET out == getOrders(db, req)
    IN /\ db' = out.db
       /\ last' = Called("getOrders", req, out.res)
       /\ calls' = calls

ResumeOrder ==
  \E req \in ResumeReqs :
    LET out == orderDetails(db, req.client, req.orderId, req.gotStarted)
    IN /\ db' = out.db
       /\ last' = Called("orderDetails", req, out.res)
       /\ calls' = calls

NextKept == SaveWithFiles \/ RemoveFileKept \/ ShowOrder \/ ResumeOrder

SpecKept == Init /\ [][NextKept]_vars

----------------------------------------------------------------------------
(* confirmOrderCompletion invocations, one await at a time (lines          *)
(* 1665-1719), while saveOrderDetails calls of either client run           *)

RaceCompleteReqs == [email : {"A@X", "B@X", "nobody@x"}, orderId : 1..MaxOrders]

RaceSaveReqs ==
  {SaveReq(e, o, c, <<>>, [fail |-> "none", currencyCode |-> "USD"]) :
     e \in {"A@X", "B@X"}, o \in 0..MaxOrders, c \in Contents}

\* await confirmOrderOwnership(...) (lines 1669-1672): the call rejects,
\* returns { updated: false }, or goes on to the update.
BeginComplete ==
  \E p \in Procs, req \in RaceCompleteReqs :
    LET belongs == confirmOrderOwnership(db, req)
    IN /\ calls[p].pc = "idle"
       /\ db' = db
       /\ IF belongs.rejected
          THEN /\ last' = Called("confirmOrderCompletion", req, Rejected)
               /\ calls' = calls
          ELSE IF belongs.val
          THEN /\ last' = last
               /\ calls' = [calls EXCEPT ![p] =
                              [pc |-> "update",
                               op |-> "confirmOrderCompletion", req |-> req]]
          ELSE /\ last' = Called("confirmOrderCompletion", req,
                                 Resolved([updated |-> FALSE]))
               /\ calls' = calls

\* await Order.update(...) and the value returned (lines 1697-1707).
CompleteUpdate ==
  \E p \in Procs :
    /\ calls[p].pc = "update"
    /\ LET req == calls[p].req
           CLIENT_ID == ClientIdOf(UserIdOf(toLowerCase(req.email)))
           affectedCount ==
             Count(db.orders, LAMBDA o : o.id = req.orderId
                                         /\ o.clientId = CLIENT_ID)
       IN /\ db' = CompleteOrder(db, req.orderId, CLIENT_ID)
          /\ last' = Called("confirmOrderCompletion", req,
                            Resolved([updated |->
                                        statusUpdatedLength(affectedCount) > 0]))
    /\ calls' = [calls EXCEPT ![p] = Idle]

SaveDuringCompletion ==
  \E req \in RaceSaveReqs :
    LET out == saveOrderDetails(db, req)
    IN /\ Bounded(out.db)
       /\ db' = out.db
       /\ last' = Called("saveOrderDetails", req, out.res)
       /\ calls' = calls

NextRaceComplete == BeginComplete \/ CompleteUpdate \/ SaveDuringCompletion

SpecRaceComplete == Init /\ [][NextRaceComplete]_vars

----------------------------------------------------------------------------
(* Request authentication: AuthService.auth (src/services/auth.js, lines   *)
(* 5-43)                                                                   *)

\* The value of a header or an environment variable that is not set.
undefined == "<undefined>"

\* The truthiness of a string or undefined.
Truthy(v) == v # undefined /\ v # ""

PRODUCTION_ORIGINS ==
  {"https://api.essayspring.com:gkjslif",
   "https://api.writeray.com:rthjerht45thjer"}

DEVELOPMENT_ORIGINS ==
  {"http://localhost:3100:lspauidg", "http://localhost:6200:hj34we4y3hjw4e3j"}

\* const ENVIRON = process.env.NODE_ENV || 'development'
ENVIRON(env) == IF Truthy(env.NODE_ENV) THEN env.NODE_ENV ELSE "development"

targetOrigin(env) ==
  IF Truthy(ENVIRON(env)) /\ ENVIRON(env) = "production"
  THEN PRODUCTION_ORIGINS ELSE DEVELOPMENT_ORIGINS

apiKey(env) ==
  IF Truthy(ENVIRON(env)) /\ ENVIRON(env) = "production"
  THEN env.API_KEY ELSE env.DEV_API_KEY

\* What the middleware did: next() called or not, and the status of the
\* response sent (0: no response sent).
NextCalled == [next |-> TRUE, status |-> 0]

Responded500 == [next |-> FALSE, status |-> 500]

auth_skipsKeyPresence(headers, env) ==
  LET ORIGIN == headers.x_allowed_origin
  IN IF Truthy(ORIGIN) /\ ORIGIN \in targetOrigin(env)
        /\ headers.api_key = apiKey(env)
     THEN NextCalled ELSE Responded500

auth(headers, env) ==
  LET ORIGIN == headers.x_allowed_origin
  IN IF Truthy(ORIGIN)
     THEN IF ORIGIN \in targetOrigin(env)
          THEN LET INNER_API_KEY == headers.api_key
               IN IF Truthy(INNER_API_KEY) /\ INNER_API_KEY = apiKey(env)
                  THEN NextCalled ELSE Responded500
          ELSE Responded500
     ELSE Responded500

\* Headers of a request and the environment of the process.
AuthHeaders ==
  [x_allowed_origin :
     {undefined, "", "https://api.essayspring.com:gkjslif",
      "http://localhost:6200:hj34we4y3hjw4e3j", "https://evil.example"},
   api_key : {undefined, "", "k1", "k2"}]

AuthEnvs ==
  [NODE_ENV : {undefined, "", "production", "development", "test"},
   API_KEY : {undefined, "", "k1"},
   DEV_API_KEY : {undefined, "", "k2"}]

\* A request has arrived and is not yet handled.
InitAuth ==
  /\ db = SeedDb
  /\ \E headers \in AuthHeaders, env \in AuthEnvs :
       last = Called("request", [headers |-> headers, env |-> env],
                     [next |-> FALSE, status |-> 0])
  /\ calls = NoCalls

Auth ==
  /\ last.op = "request"
  /\ db' = db
  /\ last' = Called("auth", last.req, auth(last.req.headers, last.req.env))
  /\ calls' = calls

NextAuth == Auth

SpecAuth == InitAuth /\ [][NextAuth]_vars

----------------------------------------------------------------------------
(* Properties of placement (SpecPlace)                                     *)

RowsUnchanged ==
  /\ db'.orders = db.orders
  /\ db'.steps = db.steps
  /\ db'.files = db.files
  /\ db'.pays = db.pays

FileCount(files, orderId, fileUrl) ==
  Count(files, LAMBDA f : f.orderId = orderId /\ f.fileUrl = fileUrl
                          /\ f.type = "Client Supporting")

\* C1: a saveOrderDetails call with orderId > 0 that rejects leaves the
\* Order rows, the posting-step rows, the OrderFile rows and the
\* OrderPaymentDetail rows exactly as they were before the call.
C1_UpdateBranchAtomic ==
  [][(/\ last'.op = "saveOrderDetails"
      /\ last'.req.orderId > 0
      /\ last'.res.rejected) => RowsUnchanged]_vars

\* C2: a saveOrderDetails call with orderId 0 that rejects (the posting-step
\* insert, a file insert, the currency lookup or the PaymentDetail insert
\* failed) leaves no Order, ClientOrderPostingStep, OrderFile or
\* OrderPaymentDetail row of the call in the store.
C2_CreateBranchAtomic ==
  [][(/\ last'.op = "saveOrderDetails"
      /\ last'.req.orderId = 0
      /\ last'.res.rejected) => RowsUnchanged]_vars

\* A create call rejected at the PaymentDetail insert, after the Order, the
\* posting step and a file were inserted; the order id was drawn.
C2_Witness ==
  /\ last.op = "saveOrderDetails"
  /\ last.req.orderId = 0
  /\ last.res.rejected
  /\ last.req.fail = "pay"
  /\ Len(last.req.supportingFiles) > 0
  /\ db.orderSeq > Len(db.orders)

\* C4: after a successful update call (orderId > 0) that lists a file once,
\* for an order that had at most one row of that file before, the same call
\* made again creates no OrderFile row and exactly one row of that
\* (orderId, fileUrl, 'Client Supporting') exists.
C4_AttachOnce ==
  [][(/\ last'.op = "saveOrderDetails"
      /\ last'.req.orderId > 0
      /\ ~last'.res.rejected) =>
     LET req == last'.req
         second == saveOrderDetails(db', req)
     IN /\ second.db.files = db'.files
        /\ \A i \in 1..Len(req.supportingFiles) :
             LET url == req.supportingFiles[i].fileUrl
             IN (/\ Count(req.supportingFiles,
                          LAMBDA g : g.fileUrl = url) = 1
                 /\ FileCount(db.files, req.orderId, url) <= 1)
                => FileCount(second.db.files, req.orderId, url) = 1]_vars

\* An update call that listed a file has succeeded and the order has one
\* row of that file.
C4_Witness ==
  /\ last.op = "saveOrderDetails"
  /\ last.req.orderId > 0
  /\ ~last.res.rejected
  /\ Len(last.req.supportingFiles) = 1
  /\ FileCount(db.files, last.req.orderId,
               last.req.supportingFiles[1].fileUrl) = 1

\* C10: a successful saveOrderDetails call with orderId 0 adds exactly one
\* Order row, owned by the caller's client, in status 'Available', with an
\* id above every id drawn before, and returns {response: 'success',
\* orderId: id, newOrder: true}; the caller's unfiltered getOrders list then
\* has that order exactly once, in status 'Available'.
C10_OrderCreation ==
  [][(/\ last'.op = "saveOrderDetails"
      /\ last'.req.orderId = 0
      /\ ~last'.res.rejected) =>
     LET id == last'.res.val.orderId
         n == Len(db.orders)
         listed == getOrders(db', [email |-> last'.req.email,
                                   multiple |-> TRUE,
                                   orderStatusID |-> ""]).res.val.orders
     IN /\ last'.res.val = [response |-> "success", orderId |-> id,
                            newOrder |-> TRUE]
        /\ id > db.orderSeq
        /\ ~Exists(db.orders, LAMBDA o : o.id = id)
        /\ Len(db'.orders) = n + 1
        /\ SubSeq(db'.orders, 1, n) = db.orders
        /\ db'.orders[n + 1].id = id
        /\ db'.orders[n + 1].clientId = getClientId(last'.req.email)
        /\ db'.orders[n + 1].status = "Available"
        /\ Count(listed, LAMBDA o : o.id = id) = 1
        /\ \A i \in 1..Len(listed) :
             listed[i].id = id => listed[i].status = "Available"]_vars

\* A public order with one supporting file has been created.
C10_Witness ==
  /\ last.op = "saveOrderDetails"
  /\ last.req.orderId = 0
  /\ last.req.type = "public"
  /\ Len(last.req.supportingFiles) = 1
  /\ ~last.res.rejected
  /\ Exists(db.orders, LAMBDA o : o.id = last.res.val.orderId
                                  /\ o.status = "Available")

----------------------------------------------------------------------------
(* Properties of payment recording (SpecPay)                               *)

\* C3: after a successful saveOrderPaymentDetails call for an existing order
\* id > 0, the same call made again leaves exactly one OrderPaymentDetail
\* row of that order, and the two calls together add at most one row.
C3_PaymentIdempotent ==
  [][(/\ last'.op = "saveOrderPaymentDetails"
      /\ last'.req.orderId > 0
      /\ Exists(db.orders, LAMBDA o : o.id = last'.req.orderId)
      /\ ~last'.res.rejected) =>
     LET second == saveOrderPaymentDetails(db', last'.req)
     IN /\ Count(second.db.pays,
                 LAMBDA p : p.orderId = last'.req.orderId) = 1
        /\ Len(second.db.pays) <= Len(db.pays) + 1]_vars

----------------------------------------------------------------------------
(* Properties of assignment and rating (SpecAssign)                        *)

\* C5: after a rateWriter call that resolved for an order with an assigned
\* writer, a second call for the same order resolves to {rated: true} and
\* changes no row; when the order was unrated, the first call added exactly
\* one WriterRating row and wrote the average row of that writer only.
C5_RateOnce ==
  [][(/\ last'.op = "rateWriter"
      /\ Exists(db.worders, LAMBDA w : w.orderId = last'.req.orderId)
      /\ ~last'.res.rejected) =>
     LET o == last'.req.orderId
         w == FirstRow(db.worders, LAMBDA x : x.orderId = o).writerId
     IN /\ \A req2 \in RateReqs :
             req2.orderId = o =>
               LET second == rateWriter(db', req2)
               IN /\ second.res = Resolved([rated |-> TRUE])
                  /\ second.db = db'
        /\ ~Exists(db.ratings, LAMBDA r : r.orderId = o) =>
             /\ db'.ratings = Append(db.ratings,
                  [orderId |-> o, writerId |-> w,
                   rating |-> last'.req.rating])
             /\ Count(db'.avgs, LAMBDA a : a.writerId = w) = 1
             /\ SelectRows(db'.avgs, LAMBDA a : a.writerId # w)
                  = SelectRows(db.avgs, LAMBDA a : a.writerId # w)]_vars

\* A second rateWriter call for a rated order has returned {rated: true}.
C5_Witness ==
  /\ last.op = "rateWriter"
  /\ last.res = Resolved([rated |-> TRUE])
  /\ Count(db.ratings, LAMBDA r : r.orderId = last.req.orderId) = 1

\* C6: after an updateOrderStatus call that resolved for an (order, writer)
\* pair not assigned before, with writerAlreadyChosen false, a second call
\* for the pair returns {statusUpdated: true, writerAlreadyChosen: true}
\* and exactly one WriterOrder row of the pair exists.
C6_AssignOnce ==
  [][(/\ last'.op = "updateOrderStatus"
      /\ ~last'.res.rejected) =>
     LET o == last'.req.orderId
         w == WriterIdOf(last'.req.writerId)
         pair(x) == x.orderId = o /\ x.writerId = w
     IN /\ ~Exists(db.worders, pair) =>
             last'.res.val = [statusUpdated |-> TRUE,
                              writerAlreadyChosen |-> FALSE]
        /\ \A req2 \in AssignReqs :
             (req2.orderId = o /\ req2.writerId = last'.req.writerId) =>
               LET second == updateOrderStatus(db', req2)
               IN /\ second.res = Resolved([statusUpdated |-> TRUE,
                                            writerAlreadyChosen |-> TRUE])
                  /\ Count(second.db.worders, pair) = 1]_vars

\* A second updateOrderStatus call for an assigned pair has returned
\* writerAlreadyChosen: true.
C6_Witness ==
  /\ last.op = "updateOrderStatus"
  /\ ~last.res.rejected
  /\ last.res.val.writerAlreadyChosen
  /\ Count(db.worders, LAMBDA x : x.orderId = last.req.orderId
             /\ x.writerId = WriterIdOf(last.req.writerId)) = 1

----------------------------------------------------------------------------
(* Properties of the filename sanitizer (SpecFmt)                          *)

HasDot(name) == \E i \in 1..Len(name) : name[i] = "."

LastDot(name) ==
  CHOOSE i \in 1..Len(name) :
    name[i] = "." /\ \A j \in (i + 1)..Len(name) : name[j] # "."

\* C7: a name of at most 50 characters is returned unchanged; a longer name
\* stem '.' ext, ext being the text after the last '.' and shorter than 49
\* characters, gives exactly 50 characters that end with '.' ext and start
\* with a prefix of the stem.
C7_SanitizerResult ==
  last.op = "originalNameFormatter" =>
    LET name == last.req.originalName
        res == last.res
    IN /\ Len(name) <= MAX_ORIGINAL_NAME_LENGTH => res = Returned(name)
       /\ (/\ Len(name) > MAX_ORIGINAL_NAME_LENGTH
           /\ HasDot(name)
           /\ Len(name) - LastDot(name) < 49) =>
            LET ext == SubSeq(name, LastDot(name) + 1, Len(name))
                stem == SubSeq(name, 1, LastDot(name) - 1)
                k == 50 - Len(ext) - 1
            IN /\ ~res.threw
               /\ Len(res.val) = 50
               /\ SubSeq(res.val, k + 1, 50) = <<".">> \o ext
               /\ SubSeq(res.val, 1, k) = SubSeq(stem, 1, k)

\* "a".repeat(60) + ".pdf" has been cut to "a".repeat(46) + ".pdf".
C7_Witness ==
  /\ last.op = "originalNameFormatter"
  /\ last.req.originalName = ExampleName
  /\ last.res = Returned([i \in 1..46 |-> "a"] \o <<".", "p", "d", "f">>)

\* C8: for every input name the sanitizer returns, without throwing, a
\* string of at most 50 characters.
C8_SanitizerBound ==
  last.op = "originalNameFormatter" =>
    /\ ~last.res.threw
    /\ Len(last.res.val) <= MAX_ORIGINAL_NAME_LENGTH

----------------------------------------------------------------------------
(* Properties of the resume projection (SpecDiscount)                      *)

\* C9: in the projection of an unpaid latest order, paperDiscount is 0 when
\* the page count is 1; when it is greater than 1 (and a tier with a lower
\* bound at or below the page count is configured) the discount returned is
\* that of a tier whose lower bound is at most the page count.
C9_DiscountBoundary ==
  (last.op = "orderDetails" /\ "paperDiscount" \in DOMAIN last.res.val) =>
    LET pageCount == last.res.val.pageCount
        paperDiscount == last.res.val.paperDiscount
        tiers == {db.tiers[i] : i \in 1..Len(db.tiers)}
    IN /\ pageCount = 1 => paperDiscount = [kind |-> "number", discount |-> 0]
       /\ (pageCount > 1 /\ \E t \in tiers : t.lowerLimit <= pageCount) =>
            /\ paperDiscount.kind = "row"
            /\ \E t \in tiers : /\ t.lowerLimit <= pageCount
                                /\ t.discount = paperDiscount.discount

----------------------------------------------------------------------------
(* Properties of the workflows together (SpecWork)                         *)

\* C11: a revisionRequest call whose email resolves to a client that does
\* not own the order id of the request resolves (it does not reject) to
\* {success: false, message: 'Order does not exist'} and changes no row: no
\* OrderFile row, no OrderRevision row, no order status.
C11_RevisionOwnershipGuard ==
  [][(/\ last'.op = "revisionRequest"
      /\ getClientId(last'.req.email) # NULL
      /\ ~Exists(db.orders, LAMBDA o :
                    /\ o.id = last'.req.orderId
                    /\ o.clientId = getClientId(last'.req.email)))
     => /\ last'.res = Resolved([success |-> FALSE,
                                 message |-> "Order does not exist"])
        /\ db' = db]_vars

\* A revision request with a supporting file, by a client other than the
\* owner of the existing order it names, has been answered.
C11_Witness ==
  /\ last.op = "revisionRequest"
  /\ last.req.email = "B@X"
  /\ Len(last.req.supportingFiles) > 0
  /\ Exists(db.orders, LAMBDA o : o.id = last.req.orderId /\ o.clientId = 21)
  /\ ~last.res.rejected

----------------------------------------------------------------------------
(* Properties of updateOrderStatus (SpecAssign)                            *)

\* C12: after an updateOrderStatus call that resolved for an existing order,
\* the order's status is 'Ongoing' when a ClientPayment of status 'Success'
\* exists for the order or the request type is 'private', and 'Pending
\* payment' otherwise.
C12_TargetStatus ==
  [][(/\ last'.op = "updateOrderStatus"
      /\ ~last'.res.rejected
      /\ Exists(db.orders, LAMBDA o : o.id = last'.req.orderId)) =>
     LET expected == IF last'.req.orderId \in db.paid
                        \/ last'.req.type = "private"
                     THEN "Ongoing" ELSE "Pending payment"
     IN \A i \in 1..Len(db'.orders) :
          db'.orders[i].id = last'.req.orderId
            => db'.orders[i].status = expected]_vars

\* A private request for an unpaid order has set it to 'Ongoing'.
C12_Witness ==
  /\ last.op = "updateOrderStatus"
  /\ ~last.res.rejected
  /\ last.req.type = "private"
  /\ last.req.orderId \notin db.paid
  /\ Exists(db.orders, LAMBDA o : o.id = last.req.orderId
                                  /\ o.status = "Ongoing")

\* C13: an updateOrderStatus call whose order id matches no Order row
\* returns {statusUpdated: false, message: 'Failed to update order status',
\* writerAlreadyChosen: false}, creates no WriterOrder row and marks no
\* OrderBid successful.
C13_ZeroRowStatusUpdate ==
  [][(/\ last'.op = "updateOrderStatus"
      /\ ~Exists(db.orders, LAMBDA o : o.id = last'.req.orderId)) =>
     /\ last'.res = Resolved([statusUpdated |-> FALSE,
                              message |-> "Failed to update order status",
                              writerAlreadyChosen |-> FALSE])
     /\ db'.worders = db.worders
     /\ db'.bids = db.bids]_vars

\* C15: an updateOrderStatus call that rejects (no Writer row for the writer
\* user id, or the WriterOrder insert failed) leaves the Order rows, the
\* OrderBid rows and the WriterOrder rows as they were before the call.
C15_StatusWorkflowAtomic ==
  [][(/\ last'.op = "updateOrderStatus"
      /\ last'.res.rejected) =>
     /\ db'.orders = db.orders
     /\ db'.bids = db.bids
     /\ db'.worders = db.worders]_vars

----------------------------------------------------------------------------
(* Result of placement (SpecPlace)                                         *)

\* C14: every saveOrderDetails call that resolves returns an object of
\* exactly the fields response, orderId and newOrder: response 'success',
\* the id of the order created or updated, newOrder true on the create
\* branch and false on the update branch.
C14_PlacementResult ==
  [][(/\ last'.op = "saveOrderDetails"
      /\ ~last'.res.rejected) =>
     LET v == last'.res.val
         req == last'.req
     IN /\ DOMAIN v = {"response", "orderId", "newOrder"}
        /\ v.response = "success"
        /\ v.newOrder = (req.orderId = 0)
        /\ v.orderId = IF req.orderId > 0 THEN req.orderId
                       ELSE db'.orderSeq]_vars

----------------------------------------------------------------------------
(* Properties of concurrent invocations (SpecRaceAssign, SpecRaceRate)     *)

\* C16: whenever no updateOrderStatus invocation is under way, at most one
\* WriterOrder row exists for each (order, writer) pair, however the steps
\* of two concurrent invocations for the pair were interleaved.
C16_AssignOnceInterleaved ==
  (\A p \in Procs : calls[p].pc = "idle") =>
    \A i, j \in 1..Len(db.worders) :
      (/\ db.worders[i].orderId = db.worders[j].orderId
       /\ db.worders[i].writerId = db.worders[j].writerId) => i = j

RECURSIVE SumRatings(_)
SumRatings(rows) ==
  IF Len(rows) = 0 THEN 0 ELSE rows[1].rating + SumRatings(Tail(rows))

\* C17: whenever no rateWriter invocation is under way, at most one
\* WriterRating row exists for each order, and a writer's average is the
\* mean of the writer's ratings, each order counted once, however the steps
\* of two concurrent invocations for the order were interleaved.
C17_RateOnceInterleaved ==
  (\A p \in Procs : calls[p].pc = "idle") =>
    /\ \A i, j \in 1..Len(db.ratings) :
         db.ratings[i].orderId = db.ratings[j].orderId => i = j
    /\ \A k \in 1..Len(db.avgs) :
         LET mine == SelectRows(db.ratings, LAMBDA r :
                       r.writerId = db.avgs[k].writerId)
         IN Len(mine) > 0 =>
              db.avgs[k].rating = Frac(SumRatings(mine), Len(mine))

----------------------------------------------------------------------------
(* The status of an order (SpecWork)                                       *)

\* The labels of the OrderStatus rows the workflows name.
OrderStatuses ==
  {"Available", "Pending payment", "Ongoing", "Undergoing revision",
   "Completed"}

\* C18: every Order row has exactly one status, one of the OrderStatus
\* labels, and the status of an order changes only in a step of
\* saveOrderDetails, updateOrderStatus, revisionRequest or
\* confirmOrderCompletion: removeFile, updateOrderPayment, rateWriter,
\* sendWriterInvite and getOrders change no order's status.
C18_StatusInvariant ==
  /\ [](\A i \in 1..Len(db.orders) : db.orders[i].status \in OrderStatuses)
  /\ [][(\E i \in 1..Len(db.orders) :
           db'.orders[i].status # db.orders[i].status)
        => last'.op \in {"saveOrderDetails", "updateOrderStatus",
                         "revisionRequest", "confirmOrderCompletion"}]_vars

\* updateOrderPayment, called directly, has updated the payment detail of
\* an order that is under way.
C18_Witness ==
  /\ last.op = "updateOrderPayment"
  /\ last.res = Resolved([response |-> "success", newOrder |-> FALSE])
  /\ Exists(db.orders, LAMBDA o : o.id = last.req.orderId
                                  /\ o.status = "Ongoing")

----------------------------------------------------------------------------
(* Attached files (SpecFiles) and payment details (SpecPay)                *)

\* C19: after any sequence of saveOrderDetails calls, also calls whose
\* supportingFiles list names the same fileUrl more than once, no two
\* OrderFile rows of type 'Client Supporting' have the same orderId and
\* fileUrl.
C19_NoDuplicateFile ==
  \A i, j \in 1..Len(db.files) :
    (/\ db.files[i].type = "Client Supporting"
     /\ db.files[j].type = "Client Supporting"
     /\ db.files[i].orderId = db.files[j].orderId
     /\ db.files[i].fileUrl = db.files[j].fileUrl) => i = j

\* C20: every OrderPaymentDetail row's orderId is the id of an existing
\* Order row (never null) and no Order has more than one OrderPaymentDetail
\* row.
C20_PaymentDetailOneToOne ==
  /\ \A i \in 1..Len(db.pays) :
       /\ db.pays[i].orderId # NULL
       /\ Exists(db.orders, LAMBDA o : o.id = db.pays[i].orderId)
  /\ \A i \in 1..Len(db.orders) :
       Count(db.pays, LAMBDA p : p.orderId = db.orders[i].id) <= 1

----------------------------------------------------------------------------
(* The running average (SpecRate)                                          *)

----------------------------------------------------------------------------
(* One writer per order (SpecAssign)                                       *)

\* C22: after any sequence of updateOrderStatus calls, an order has at most
\* one WriterOrder row, also when the calls for the order name different
\* writers.
C22_OneWriterPerOrder ==
  \A i, j \in 1..Len(db.worders) :
    db.worders[i].orderId = db.worders[j].orderId => i = j

----------------------------------------------------------------------------
(* Revision requests (SpecRevise)                                          *)

\* C23: when the insert of the OrderRevision row fails inside
\* revisionRequest, the call rejects and the order's status and the
\* OrderFile rows are as they were before the call.
C23_RevisionFailureAtomic ==
  [][(/\ last'.op = "revisionRequest"
      /\ last'.req.fail = "revision"
      /\ Exists(db.orders, LAMBDA o :
           /\ o.id = last'.req.orderId
           /\ o.clientId = ClientIdOf(UserIdOf(toLowerCase(last'.req.email)))))
     => /\ last'.res.rejected
        /\ db'.orders = db.orders
        /\ db'.files = db.files]_vars

\* C24: after revisionRequest succeeds, the order's status is 'Undergoing
\* revision', exactly one OrderRevision row was added, with submitted false,
\* isDeleted false and an instruction map that holds exactly the checklist
\* entries marked as selected, and one OrderFile row of type 'Revision
\* Supporting' was added for each supplied supporting file.
C24_RevisionEffect ==
  [][(/\ last'.op = "revisionRequest"
      /\ ~last'.res.rejected
      /\ last'.res.val.success)
     => LET req == last'.req
            n == Len(req.supportingFiles)
            added == db'.revisions[Len(db'.revisions)]
        IN /\ \A i \in 1..Len(db'.orders) :
                db'.orders[i].id = req.orderId
                  => db'.orders[i].status = "Undergoing revision"
           /\ Len(db'.revisions) = Len(db.revisions) + 1
           /\ SubSeq(db'.revisions, 1, Len(db.revisions)) = db.revisions
           /\ added.orderId = req.orderId
           /\ added.submitted = FALSE
           /\ added.isDeleted = FALSE
           /\ DOMAIN added.revisionInstructions
                = {k \in DOMAIN req.checklist : req.checklist[k].key}
           /\ \A k \in DOMAIN added.revisionInstructions :
                added.revisionInstructions[k] = req.checklist[k].val
           /\ Len(db'.files) = Len(db.files) + n
           /\ SubSeq(db'.files, 1, Len(db.files)) = db.files
           /\ \A i \in 1..n :
                LET f == db'.files[Len(db.files) + i]
                IN /\ f.orderId = req.orderId
                   /\ f.fileUrl = req.supportingFiles[i].fileUrl
                   /\ f.type = "Revision Supporting"
                   /\ f.isDeleted = FALSE]_vars

\* A revision of an owned order was recorded with one entry of the checklist
\* marked and one not, and two supporting files.
C24_Witness ==
  /\ last.op = "revisionRequest"
  /\ ~last.res.rejected
  /\ last.res.val.success
  /\ last.req.checklist["grammar"].key
  /\ ~last.req.checklist["format"].key
  /\ Len(last.req.supportingFiles) = 2
  /\ Len(db.revisions) > 0
  /\ DOMAIN db.revisions[Len(db.revisions)].revisionInstructions = {"grammar"}
  /\ Count(db.files, LAMBDA f : f.type = "Revision Supporting") = 2

\* C25: revisionRequest moves an order to 'Undergoing revision' and records
\* an OrderRevision row only when the order's status is 'Completed',
\* 'Submitted' or 'Undergoing revision'.
C25_RevisableStatusOnly ==
  [][(/\ last'.op = "revisionRequest"
      /\ \/ Len(db'.revisions) > Len(db.revisions)
         \/ \E i \in 1..Len(db.orders) :
              /\ db.orders[i].status # "Undergoing revision"
              /\ db'.orders[i].status = "Undergoing revision")
     => \A i \in 1..Len(db.orders) :
          db.orders[i].id = last'.req.orderId
            => db.orders[i].status
                 \in {"Completed", "Submitted", "Undergoing revision"}]_vars

----------------------------------------------------------------------------
(* The owner of an order (SpecOwner)                                       *)

\* C26: the clientId of an Order row never changes after the row is
\* created, and a saveOrderDetails call modifies an existing Order row only
\* when the row belongs to the client resolved from the request's email.
C26_OwnershipStable ==
  [][\A i \in 1..Len(db.orders) :
       /\ db'.orders[i].clientId = db.orders[i].clientId
       /\ (/\ last'.op = "saveOrderDetails"
           /\ db.orders[i].clientId
                # ClientIdOf(UserIdOf(toLowerCase(last'.req.email))))
          => db'.orders[i] = db.orders[i]]_vars

----------------------------------------------------------------------------
(* Updates of an assigned order (SpecWork)                                 *)

\* C27: a saveOrderDetails call that updates an existing order leaves the
\* order in status 'Available' whatever its status was, and leaves the
\* WriterOrder rows as they were: an order that updateOrderStatus had moved
\* to 'Ongoing' or 'Pending payment' is 'Available' again and still has its
\* WriterOrder row.
C27_UpdateResetsStatus ==
  [][(/\ last'.op = "saveOrderDetails"
      /\ ~last'.res.rejected
      /\ last'.req.orderId > 0)
     => /\ \A i \in 1..Len(db.orders) :
             db.orders[i].id = last'.req.orderId
               => db'.orders[i].status = "Available"
        /\ db'.worders = db.worders]_vars

\* An order with a WriterOrder row has just been updated by saveOrderDetails
\* and is 'Available'.
C27_Witness ==
  /\ last.op = "saveOrderDetails"
  /\ ~last.res.rejected
  /\ last.req.orderId = 1
  /\ Exists(db.worders, LAMBDA w : w.orderId = 1)
  /\ Exists(db.orders, LAMBDA o : o.id = 1 /\ o.status = "Available")

----------------------------------------------------------------------------
(* Re-attaching a removed file (SpecKept)                                  *)

\* The committed 'Client Supporting' rows of a file of an order.
RowsOfFile(d, orderId, fileUrl) ==
  SelectRows(d.files, LAMBDA f : f.orderId = orderId /\ f.fileUrl = fileUrl
                                 /\ f.type = "Client Supporting")

\* C28: when a saveOrderDetails update of a client's order lists a fileUrl
\* whose OrderFile row of the order was soft-deleted by removeFile, the call
\* creates no new row for it and the row stays isDeleted true, so neither
\* the single-order view of getOrders nor orderDetails returns the file.
C28_RemovedFileStaysRemoved ==
  [][(/\ last'.op = "saveOrderDetails"
      /\ ~last'.res.rejected
      /\ last'.req.orderId > 0
      /\ Exists(db.orders, LAMBDA o :
            /\ o.id = last'.req.orderId
            /\ o.clientId = getClientId(last'.req.email)))
     => \A i \in 1..Len(last'.req.supportingFiles) :
          LET req == last'.req
              url == req.supportingFiles[i].fileUrl
              before == RowsOfFile(db, req.orderId, url)
              shown == getOrders(db', [email |-> req.email,
                                       multiple |-> FALSE,
                                       orderId |-> req.orderId]).res
              resumed == orderDetails(db', getClientId(req.email),
                                      req.orderId, FALSE).res
          IN (/\ Len(before) > 0
              /\ \A k \in 1..Len(before) : before[k].isDeleted)
             => /\ RowsOfFile(db', req.orderId, url) = before
                /\ ~shown.rejected
                /\ \A k \in 1..Len(shown.val.details.OrderFile) :
                     shown.val.details.OrderFile[k].fileUrl # url
                /\ ~resumed.rejected
                /\ resumed.val.orderDetails = req.orderId
                /\ \A k \in 1..Len(resumed.val.orderFiles) :
                     resumed.val.orderFiles[k].fileUrl # url]_vars

\* An update that lists the file u1 has run for an order whose row for u1
\* is soft-deleted.
C28_Witness ==
  /\ last.op = "saveOrderDetails"
  /\ ~last.res.rejected
  /\ last.req.orderId > 0
  /\ Len(last.req.supportingFiles) > 0
  /\ last.req.supportingFiles[1].fileUrl = "u1"
  /\ Len(RowsOfFile(db, last.req.orderId, "u1")) = 1
  /\ RowsOfFile(db, last.req.orderId, "u1")[1].isDeleted
  /\ Exists(db.orders, LAMBDA o : o.id = last.req.orderId /\ o.clientId = 21)

----------------------------------------------------------------------------
(* Completion of an order (SpecRaceComplete)                               *)

\* C29: confirmOrderCompletion sets an order's status to 'Completed' only
\* when the order belongs to the requesting client; for another client's
\* order or an id with no row it returns {updated: false} and changes no
\* row; it returns {updated: true} only when an Order row was changed, that
\* is, when a row of the id owned by the client was set to 'Completed'.
C29_CompletionGuard ==
  [][/\ (/\ calls' = calls
         /\ last'.op = "confirmOrderCompletion"
         /\ getClientId(last'.req.email) # NULL
         /\ ~Exists(db.orders, LAMBDA o :
                       /\ o.id = last'.req.orderId
                       /\ o.clientId = getClientId(last'.req.email)))
        => /\ last'.res = Resolved([updated |-> FALSE])
           /\ db' = db
     /\ \A p \in Procs :
          (/\ calls[p].pc = "update"
           /\ calls'[p].pc = "idle")
          => /\ \A i \in 1..Len(db.orders) :
                  db'.orders[i] # db.orders[i]
                    => /\ db.orders[i].id = calls[p].req.orderId
                       /\ db.orders[i].clientId
                            = getClientId(calls[p].req.email)
                       /\ db'.orders[i].status = "Completed"
             /\ last'.res.val.updated
                  => \E i \in 1..Len(db.orders) :
                       /\ db.orders[i].id = calls[p].req.orderId
                       /\ db.orders[i].clientId
                            = getClientId(calls[p].req.email)
                       /\ db'.orders[i].status = "Completed"]_vars

----------------------------------------------------------------------------
(* Request authentication (SpecAuth)                                       *)

\* C30: for every request AuthService.auth either calls next(), when the
\* x-allowed-origin header is one of the target origins of the current
\* environment and the api_key header is non-empty and equal to the
\* configured API key, or else responds with status 500 and does not call
\* next(); a request without an api_key header is answered with 500 also
\* when the configured key is not set.
C30_Authentication ==
  last.op = "auth" =>
    LET headers == last.req.headers
        env == last.req.env
        production == env.NODE_ENV = "production"
        origins == IF production THEN PRODUCTION_ORIGINS
                   ELSE DEVELOPMENT_ORIGINS
        key == IF production THEN env.API_KEY ELSE env.DEV_API_KEY
        allowed == /\ headers.x_allowed_origin \in origins
                   /\ headers.api_key \notin {undefined, ""}
                   /\ headers.api_key = key
    IN /\ allowed => last.res = [next |-> TRUE, status |-> 0]
       /\ ~allowed => last.res = [next |-> FALSE, status |-> 500]
       /\ headers.api_key = undefined
            => last.res = [next |-> FALSE, status |-> 500]

\* A request from a configured origin without an api_key header was handled
\* in an environment whose key is not set.
C30_Witness ==
  /\ last.op = "auth"
  /\ last.req.headers.x_allowed_origin \in DEVELOPMENT_ORIGINS
  /\ last.req.headers.api_key = undefined
  /\ last.req.env.NODE_ENV = undefined
  /\ last.req.env.DEV_API_KEY = undefined
  /\ last.res.status = 500

============================================================================
